---- MODULE Spec2Model ----
(***************************************************************************)
(* Model of the project panel of crates/project_panel2/src/project_panel.rs *)
(* : the visible projection (visible_entries), the expansion table         *)
(* (expanded_dir_ids), the selection, the edit session (edit_state), the   *)
(* filename editor, the focus, and the asynchronous create / rename        *)
(* operations of the project together with their completion callbacks.     *)
(*                                                                         *)
(* File names are strings, modelled as sequences of character codes        *)
(* (ASCII).  A path is a sequence of names (its components).  An entry is  *)
(* a record [id, path, is_dir].                                            *)
(***************************************************************************)
EXTENDS Integers, Sequences, FiniteSets, TLC

\* ---------------------------------------------------------------------------
\* Bounds of the model
\* ---------------------------------------------------------------------------

\* Numbers of handlers the environment starts over a behaviour.  The handlers
\* the program owes to earlier ones (the flush of a pending Blurred event, the
\* completion of a spawned task) are not counted.
\*   MaxEditActions: actions on the edit session and the focus (new_file,
\*     new_directory, rename, typing, confirm, cancel, blur);
\*   MaxTreeActions: actions on the selection and the expansion table, and
\*     project events.
MaxEditActions == 4
MaxTreeActions == 2
MaxPasteActions == 3

\* ---------------------------------------------------------------------------
\* Program constants and values
\* ---------------------------------------------------------------------------

\* const NEW_ENTRY_ID: ProjectEntryId = ProjectEntryId::MAX
NEW_ENTRY_ID == 2147483647

\* Option::None and Option::Some(x)
None == [none |-> TRUE]
Some(x) == [some |-> x]

\* character codes
NUL == 0
SLASH == 47
DOT == 46
SPACE == 32
DIGIT_0 == 48

\* The strings used as names and as typed text.
STR_A == <<65>>
STR_a == <<97>>
STR_b == <<98>>
STR_d == <<100>>
STR_empty == <<>>

\* " copy"
STR_copy == <<SPACE, 99, 111, 112, 121>>

\* The texts the user types into the filename editor.
Texts == {STR_a, STR_b}

WorktreeIds == {1, 2, 3}

\* The worktrees the user removes from the project.
RemovableWorktrees == {2}

\* ---------------------------------------------------------------------------
\* State
\* ---------------------------------------------------------------------------

VARIABLES
    worktree_order,     \* project.visible_worktrees(): sequence of worktree ids
    snapshot,           \* worktree id -> set of entries of its snapshot
    next_entry_id,      \* the next ProjectEntryId the worktrees hand out
    visible_entries,    \* Vec<(WorktreeId, Vec<Entry>)>
    expanded_dir_ids,   \* HashMap<WorktreeId, Vec<ProjectEntryId>>
    selection,          \* Option<Selection>
    edit_state,         \* Option<EditState>
    filename_text,      \* text of filename_editor
    focus,              \* which view holds the focus: "editor", "panel", "other"
    blur_pending,       \* a filename-editor Blurred event waits in the effect queue
    tasks,              \* spawned completion tasks of confirm_edit, not yet resumed
    calls,              \* sequence of the external calls issued to the project
    edit_actions,       \* number of edit handlers the environment has started
    tree_actions,       \* number of tree handlers the environment has started
    clipboard_entry,    \* Option<ClipboardEntry>
    pastes,             \* copy / rename operations issued by paste, in flight
    prompts,            \* confirmation prompts opened by delete, not yet answered
    deletes,            \* delete operations issued to the project, in flight
    events,             \* sequence of the events the panel has emitted
    expand_requests,    \* sequence of the project.expand_entry requests issued
    last                \* the handler that ran last and what it did

vars == <<worktree_order, snapshot, next_entry_id, visible_entries,
          expanded_dir_ids, selection, edit_state, filename_text, focus,
          blur_pending, tasks, calls, edit_actions, tree_actions,
          clipboard_entry, pastes, prompts, deletes, events, expand_requests,
          last>>

actions == <<edit_actions, tree_actions>>

project_vars == <<worktree_order, snapshot, next_entry_id>>

clipboard_vars == <<clipboard_entry, pastes>>

delete_vars == <<prompts, deletes>>

\* ---------------------------------------------------------------------------
\* Strings, paths (std::path::Path, unicase::UniCase)
\* ---------------------------------------------------------------------------

\* u8::to_ascii_lowercase, as used by UniCase's comparison of ASCII strings
ToAsciiLowercase(c) == IF c >= 65 /\ c <= 90 THEN c + 32 ELSE c

\* Lexicographic comparison of two sequences of codes after applying f to
\* each code: -1 (Less), 0 (Equal), 1 (Greater).
RECURSIVE CmpFrom(_, _, _, _)
CmpFrom(s, t, k, fold) ==
    IF k > Len(s) /\ k > Len(t) THEN 0
    ELSE IF k > Len(s) THEN -1
    ELSE IF k > Len(t) THEN 1
    ELSE LET x == IF fold THEN ToAsciiLowercase(s[k]) ELSE s[k]
             y == IF fold THEN ToAsciiLowercase(t[k]) ELSE t[k]
         IN  IF x < y THEN -1
             ELSE IF x > y THEN 1
             ELSE CmpFrom(s, t, k + 1, fold)

\* byte-wise comparison of two names (OsStr order)
StrCmp(s, t) == CmpFrom(s, t, 1, FALSE)

\* UniCase::new(a).cmp(&UniCase::new(b))
UniCaseCmp(s, t) == CmpFrom(s, t, 1, TRUE)

\* Path order of the snapshot (component-wise, byte order of each name).
RECURSIVE PathCmpFrom(_, _, _)
PathCmpFrom(p, q, k) ==
    IF k > Len(p) /\ k > Len(q) THEN 0
    ELSE IF k > Len(p) THEN -1
    ELSE IF k > Len(q) THEN 1
    ELSE LET c == StrCmp(p[k], q[k])
         IN  IF c # 0 THEN c ELSE PathCmpFrom(p, q, k + 1)

PathCmp(p, q) == PathCmpFrom(p, q, 1)

\* Path::starts_with
IsPrefix(p, q) == Len(p) <= Len(q) /\ SubSeq(q, 1, Len(p)) = p

\* Path::parent: None for the empty (root) path
HasParent(p) == Len(p) > 0
Parent(p) == SubSeq(p, 1, Len(p) - 1)

\* Splits a typed text into path components at '/' (Path::components drops
\* empty components).
RECURSIVE SplitFrom(_, _, _, _)
SplitFrom(text, k, cur, acc) ==
    IF k > Len(text)
    THEN IF cur = <<>> THEN acc ELSE Append(acc, cur)
    ELSE IF text[k] = SLASH
         THEN SplitFrom(text, k + 1, <<>>,
                        IF cur = <<>> THEN acc ELSE Append(acc, cur))
         ELSE SplitFrom(text, k + 1, Append(cur, text[k]), acc)

Components(text) == SplitFrom(text, 1, <<>>, <<>>)

\* A trim_start_matches that leaves the text as it is.
TrimStartMatchesSlash_Untrimmed(text) == text

\* str::trim_start_matches("/")
RECURSIVE TrimStartMatchesSlash(_)
TrimStartMatchesSlash(text) ==
    IF text # <<>> /\ Head(text) = SLASH
    THEN TrimStartMatchesSlash(Tail(text))
    ELSE text

\* Path::join(base, text): an absolute text replaces base.  An absolute path
\* is represented by the marker component <<SLASH>> in front.
IsAbsolute(text) == text # <<>> /\ Head(text) = SLASH
PathJoin(base, text) ==
    IF IsAbsolute(text) THEN <<(<<SLASH>>)>> \o Components(text)
    ELSE base \o Components(text)

\* ---------------------------------------------------------------------------
\* Worktree snapshots (project::Worktree / Snapshot, consumed interface)
\* ---------------------------------------------------------------------------

Entry(id, path, is_dir) == [id |-> id, path |-> path, is_dir |-> is_dir]

\* Snapshot::entry_for_id
HasEntryForId(snap, id) == \E e \in snap : e.id = id
entry_for_id(snap, id) == CHOOSE e \in snap : e.id = id

\* Snapshot::entry_for_path
HasEntryForPath(snap, path) == \E e \in snap : e.path = path
entry_for_path(snap, path) == CHOOSE e \in snap : e.path = path

\* Snapshot::root_entry
HasRootEntry(snap) == HasEntryForPath(snap, <<>>)
root_entry(snap) == entry_for_path(snap, <<>>)

\* Snapshot::entries(true): all entries of the snapshot in path order.
RECURSIVE EntriesInPathOrder(_)
EntriesInPathOrder(snap) ==
    IF snap = {} THEN <<>>
    ELSE LET first == CHOOSE e \in snap :
                        \A f \in snap : PathCmp(e.path, f.path) <= 0
         IN  <<first>> \o EntriesInPathOrder(snap \ {first})

\* Traversal::advance_to_sibling from position i of the traversal: the index
\* of the first later entry that is not a descendant of the entry at i
\* (Len + 1 when the traversal is exhausted).
RECURSIVE AdvanceToSibling(_, _, _)
AdvanceToSibling(ents, i, j) ==
    IF j > Len(ents) THEN j
    ELSE IF IsPrefix(ents[i].path, ents[j].path)
         THEN AdvanceToSibling(ents, i, j + 1)
         ELSE j

\* ---------------------------------------------------------------------------
\* Sorted vectors of entry ids (Vec<ProjectEntryId>::binary_search / insert)
\* ---------------------------------------------------------------------------

\* <[T]>::binary_search: [found |-> TRUE, ix |-> position] or
\* [found |-> FALSE, ix |-> insertion point].
RECURSIVE BinarySearchLoop(_, _, _, _)
BinarySearchLoop(v, x, left, right) ==
    IF left >= right THEN [found |-> FALSE, ix |-> left]
    ELSE LET mid == left + ((right - left) \div 2)
         IN  IF v[mid + 1] < x THEN BinarySearchLoop(v, x, mid + 1, right)
             ELSE IF v[mid + 1] > x THEN BinarySearchLoop(v, x, left, mid)
             ELSE [found |-> TRUE, ix |-> mid]

binary_search(v, x) == BinarySearchLoop(v, x, 0, Len(v))

\* An insertion that ignores the index and pushes at the end.
VecInsert_Push(v, ix, x) == Append(v, x)

\* Vec::insert(ix, x) with a 0-based index
VecInsert(v, ix, x) == SubSeq(v, 1, ix) \o <<x>> \o SubSeq(v, ix + 1, Len(v))

\* A removal that always takes the first element.
VecRemove_First(v, ix) == Tail(v)

\* Vec::remove(ix) with a 0-based index
VecRemove(v, ix) == SubSeq(v, 1, ix) \o SubSeq(v, ix + 2, Len(v))

\* if let Err(ix) = v.binary_search(&x) { v.insert(ix, x) }
InsertIfAbsent(v, x) ==
    LET r == binary_search(v, x)
    IN  IF r.found THEN v ELSE VecInsert(v, r.ix, x)

\* ---------------------------------------------------------------------------
\* ProjectPanel::update_visible_entries
\* ---------------------------------------------------------------------------

\* The comparison closure of visible_worktree_entries.sort_by:
\* -1 (Less), 0 (Equal), 1 (Greater).
RECURSIVE CompareEntriesFrom(_, _, _)
CompareEntriesFrom(entry_a, entry_b, k) ==
    LET pa == entry_a.path
        pb == entry_b.path
    IN  IF k <= Len(pa) /\ k <= Len(pb)
        THEN LET a_is_file == (k = Len(pa)) /\ ~entry_a.is_dir
                 b_is_file == (k = Len(pb)) /\ ~entry_b.is_dir
                 ordering ==
                    IF a_is_file # b_is_file
                    THEN (IF b_is_file THEN -1 ELSE 1)
                    ELSE UniCaseCmp(pa[k], pb[k])
             IN  IF ordering # 0 THEN ordering
                 ELSE CompareEntriesFrom(entry_a, entry_b, k + 1)
        ELSE IF k <= Len(pa) THEN 1
        ELSE IF k <= Len(pb) THEN -1
        ELSE 0

CompareEntries(entry_a, entry_b) == CompareEntriesFrom(entry_a, entry_b, 1)

\* Vec::sort_by is a stable sort: an element goes after every element that
\* does not compare Greater than it.
RECURSIVE InsertSorted(_, _)
InsertSorted(sorted, e) ==
    IF sorted = <<>> THEN <<e>>
    ELSE IF CompareEntries(sorted[Len(sorted)], e) <= 0
         THEN Append(sorted, e)
         ELSE Append(InsertSorted(SubSeq(sorted, 1, Len(sorted) - 1), e),
                     sorted[Len(sorted)])

RECURSIVE SortFrom(_, _, _)
SortFrom(v, k, acc) ==
    IF k > Len(v) THEN acc
    ELSE SortFrom(v, k + 1, InsertSorted(acc, v[k]))

sort_by(v) == SortFrom(v, 1, <<>>)

\* A synthetic entry whose name sorts after the names of the real entries.
NewEntryFor_SortsLast(entry, new_entry_is_dir) ==
    Entry(NEW_ENTRY_ID, Append(entry.path, <<127>>), new_entry_is_dir)

\* The synthetic entry pushed after the anchor of a new-entry session.
NewEntryFor(entry, new_entry_is_dir) ==
    Entry(NEW_ENTRY_ID, Append(entry.path, <<NUL>>), new_entry_is_dir)

\* A cursor that always descends (advance() whatever the expansion vector
\* holds).
NextIndex_AlwaysAdvance(ents, i, expanded) == i + 1

\* The cursor after the entry at i has been pushed: a directory that is not
\* expanded is left by advance_to_sibling, any other entry by advance.
NextIndex(ents, i, expanded) ==
    IF ~binary_search(expanded, ents[i].id).found
    THEN AdvanceToSibling(ents, i, i + 1)
    ELSE i + 1

\* The `while let Some(entry) = entry_iter.entry()` loop: ents is the
\* traversal, i the cursor, expanded the root's expansion vector,
\* new_entry_parent_id None or the anchor id.
RECURSIVE CollectVisible(_, _, _, _, _, _)
CollectVisible(ents, i, expanded, new_entry_parent_id, new_entry_is_dir, acc) ==
    IF i > Len(ents) THEN acc
    ELSE LET entry == ents[i]
             pushed == Append(acc, entry)
             withNew == IF new_entry_parent_id = Some(entry.id)
                        THEN Append(pushed, NewEntryFor(entry, new_entry_is_dir))
                        ELSE pushed
             next == NextIndex(ents, i, expanded)
         IN  CollectVisible(ents, next, expanded, new_entry_parent_id,
                            new_entry_is_dir, withNew)

\* A rebuild that gives a new root an empty expansion list.
ExpandedFor_NothingExpanded(exp, snap, w) ==
    IF w \in DOMAIN exp THEN exp[w] ELSE <<>>

\* The expansion vector used for worktree w during a rebuild
\* (hash_map::Entry::Occupied / Vacant).
ExpandedFor(exp, snap, w) ==
    IF w \in DOMAIN exp THEN exp[w]
    ELSE IF HasRootEntry(snap[w]) THEN <<root_entry(snap[w]).id>>
    ELSE <<>>

\* expanded_dir_ids after a rebuild: the first time a worktree's root entry
\* is available, the root entry is marked as expanded.
ExpandedAfterRebuild(exp, order, snap) ==
    LET inserted == {w \in WorktreeIds :
                        /\ \E k \in 1..Len(order) : order[k] = w
                        /\ w \notin DOMAIN exp
                        /\ HasRootEntry(snap[w])}
    IN  [w \in (DOMAIN exp) \cup inserted |-> ExpandedFor(exp, snap, w)]

\* One (worktree_id, visible_worktree_entries) pair of visible_entries.
VisibleWorktreeEntries(exp, es, snap, w) ==
    LET is_anchor_root == es # None /\ es.worktree_id = w /\ es.is_new_entry
        new_entry_parent_id == IF is_anchor_root THEN Some(es.entry_id) ELSE None
        new_entry_is_dir == IF is_anchor_root THEN es.is_dir ELSE TRUE
    IN  [worktree_id |-> w,
         entries |-> sort_by(CollectVisible(EntriesInPathOrder(snap[w]), 1,
                                            ExpandedFor(exp, snap, w),
                                            new_entry_parent_id,
                                            new_entry_is_dir, <<>>))]

\* A rebuild that appends to the previous projection instead of replacing it
\* (visible_entries.clear() left out).
VisibleAfterRebuild_NoClear(exp, es, order, snap) ==
    visible_entries \o
        [k \in 1..Len(order) |-> VisibleWorktreeEntries(exp, es, snap, order[k])]

\* visible_entries after a rebuild
VisibleAfterRebuild(exp, es, order, snap) ==
    [k \in 1..Len(order) |-> VisibleWorktreeEntries(exp, es, snap, order[k])]

\* ---------------------------------------------------------------------------
\* Records of the state, Init
\* ---------------------------------------------------------------------------

\* The record kept in last: the handler, what it did, and (for the Blurred
\* subscription) the handler that moved the focus.
Last(op, result) == [op |-> op, result |-> result, cause |-> ""]

\* struct Selection
Selection(worktree_id, entry_id) ==
    [worktree_id |-> worktree_id, entry_id |-> entry_id]

\* struct EditState
EditState(worktree_id, entry_id, is_new_entry, is_dir, processing_filename) ==
    [worktree_id |-> worktree_id, entry_id |-> entry_id,
     is_new_entry |-> is_new_entry, is_dir |-> is_dir,
     processing_filename |-> processing_filename]

\* The file systems the two worktrees of the project are opened on (the third
\* worktree id is not in the project).
InitialSnapshot ==
    [w \in WorktreeIds |->
        IF w = 1
        THEN {Entry(1, <<>>, TRUE),
              Entry(2, <<STR_A>>, TRUE),
              Entry(3, <<STR_A, STR_b>>, FALSE),
              Entry(4, <<STR_a>>, TRUE)}
        ELSE IF w = 2
        THEN {Entry(5, <<>>, TRUE),
              Entry(6, <<STR_b>>, FALSE)}
        ELSE {}]

\* Project::worktree_for_id
HasWorktree(w) == \E k \in 1..Len(worktree_order) : worktree_order[k] = w

\* Project::worktree_id_for_entry
HasWorktreeForEntry(id) ==
    \E w \in WorktreeIds : HasWorktree(w) /\ HasEntryForId(snapshot[w], id)
worktree_id_for_entry(id) ==
    CHOOSE w \in WorktreeIds : HasWorktree(w) /\ HasEntryForId(snapshot[w], id)

\* ProjectPanel::selected_entry
HasSelectedEntry ==
    /\ selection # None
    /\ HasWorktree(selection.worktree_id)
    /\ HasEntryForId(snapshot[selection.worktree_id], selection.entry_id)
selected_entry == entry_for_id(snapshot[selection.worktree_id], selection.entry_id)

\* update_visible_entries(new_selected_entry) run on the expansion table exp,
\* the edit session es and the selection sel the handler has produced so far.
UpdateVisibleEntries(exp, es, sel, new_selected_entry, order, snap) ==
    /\ expanded_dir_ids' = ExpandedAfterRebuild(exp, order, snap)
    /\ visible_entries' = VisibleAfterRebuild(exp, es, order, snap)
    /\ selection' = IF new_selected_entry # None THEN new_selected_entry ELSE sel

\* cx.focus(&handle): the filename editor is blurred when it loses the focus;
\* the Blurred event is delivered when the effects of the handler are flushed.
\* An edit handler started by the environment: no effect is waiting to be
\* flushed.
StartedEdit ==
    /\ ~blur_pending
    /\ edit_actions < MaxEditActions
    /\ edit_actions' = edit_actions + 1
    /\ UNCHANGED <<tree_actions, clipboard_vars, delete_vars, events,
                   expand_requests>>

\* A tree handler or a project event started by the environment.
StartedTree ==
    /\ ~blur_pending
    /\ tree_actions < MaxTreeActions
    /\ tree_actions' = tree_actions + 1
    /\ UNCHANGED <<edit_actions, clipboard_vars, delete_vars, events>>

FocusTo(target) ==
    /\ focus' = target
    /\ blur_pending' = (focus = "editor" /\ target # "editor")

\* ProjectPanel::new
Init ==
    /\ worktree_order = <<1, 2>>
    /\ snapshot = InitialSnapshot
    /\ next_entry_id = 7
    /\ visible_entries =
          [k \in 1..2 |-> VisibleWorktreeEntries(<<>>, None, InitialSnapshot, k)]
    /\ expanded_dir_ids = ExpandedAfterRebuild(<<>>, <<1, 2>>, InitialSnapshot)
    /\ selection = None
    /\ edit_state = None
    /\ filename_text = STR_empty
    /\ focus = "other"
    /\ blur_pending = FALSE
    /\ tasks = {}
    /\ calls = <<>>
    /\ edit_actions = 0
    /\ tree_actions = 0
    /\ clipboard_entry = None
    /\ pastes = {}
    /\ prompts = {}
    /\ deletes = {}
    /\ events = <<>>
    /\ expand_requests = <<>>
    /\ last = Last("new", "")

\* ---------------------------------------------------------------------------
\* Edit session: add_entry, rename, confirm_edit, cancel, blur, completion
\* ---------------------------------------------------------------------------

\* A loop that stops at the selected entry, directory or not.
NearestDirectory_SelectedEntry(snap, entry) == entry

\* The loop of add_entry: the entry itself when it is a directory, otherwise
\* the first directory met walking up the parent paths; None when a parent
\* path has no entry.
RECURSIVE NearestDirectory(_, _)
NearestDirectory(snap, entry) ==
    IF entry.is_dir THEN entry
    ELSE IF HasParent(entry.path) /\ HasEntryForPath(snap, Parent(entry.path))
         THEN NearestDirectory(snap, entry_for_path(snap, Parent(entry.path)))
         ELSE None

\* add_entry gets to the point where it sets edit_state: the selection, its
\* worktree, the worktree's expansion vector, the selected entry and an
\* enclosing directory are all found.
AddEntryResolves ==
    /\ selection # None
    /\ HasWorktree(selection.worktree_id)
    /\ selection.worktree_id \in DOMAIN expanded_dir_ids
    /\ HasEntryForId(snapshot[selection.worktree_id], selection.entry_id)
    /\ NearestDirectory(snapshot[selection.worktree_id], selected_entry) # None

\* ProjectPanel::add_entry(is_dir)
add_entry(is_dir, op) ==
    /\ StartedEdit
    /\ last' = Last(op, "")
    /\ LET resolves == AddEntryResolves
       IN  IF resolves
           THEN LET worktree_id == selection.worktree_id
                    directory == NearestDirectory(snapshot[worktree_id],
                                                  selected_entry)
                    exp == [expanded_dir_ids EXCEPT ![worktree_id] =
                                InsertIfAbsent(@, directory.id)]
                    es == EditState(worktree_id, directory.id, TRUE, is_dir, None)
                IN  /\ edit_state' = es
                    /\ filename_text' = STR_empty
                    /\ FocusTo("editor")
                    /\ UpdateVisibleEntries(exp, es, selection,
                                            Selection(worktree_id, NEW_ENTRY_ID),
                                            worktree_order, snapshot)
                    /\ UNCHANGED <<project_vars, tasks, calls>>
           ELSE UNCHANGED <<project_vars, visible_entries, expanded_dir_ids,
                            selection, edit_state, filename_text, focus,
                            blur_pending, tasks, calls>>

\* ProjectPanel::new_file
new_file == add_entry(FALSE, "new_file")

\* ProjectPanel::new_directory
new_directory == add_entry(TRUE, "new_directory")

\* Path::file_name as a string ("" for the root path)
FileName(path) == IF path = <<>> THEN STR_empty ELSE path[Len(path)]

\* A rename that returns early while a submission is in flight.
RenameResolves_RefusesWhileSubmitting ==
    /\ HasSelectedEntry
    /\ ~(edit_state # None /\ edit_state.processing_filename # None)

\* rename gets to the point where it sets edit_state: the selection, its
\* worktree and the selected entry are found.
RenameResolves == HasSelectedEntry

\* ProjectPanel::rename
rename ==
    /\ StartedEdit
    /\ last' = Last("rename", "")
    /\ IF RenameResolves
       THEN LET entry == selected_entry
                es == EditState(selection.worktree_id, selection.entry_id,
                                FALSE, entry.is_dir, None)
            IN  /\ edit_state' = es
                /\ filename_text' = FileName(entry.path)
                /\ FocusTo("editor")
                /\ UpdateVisibleEntries(expanded_dir_ids, es, selection, None,
                                        worktree_order, snapshot)
                /\ UNCHANGED <<project_vars, tasks, calls>>
       ELSE UNCHANGED <<project_vars, visible_entries, expanded_dir_ids,
                        selection, edit_state, filename_text, focus,
                        blur_pending, tasks, calls>>

\* The user types into the focused filename editor (Editor::set_text).
set_text(text) ==
    /\ StartedEdit
    /\ focus = "editor"
    /\ edit_state # None
    /\ filename_text # text
    /\ filename_text' = text
    /\ last' = Last("set_text", "")
    /\ UNCHANGED <<project_vars, visible_entries, expanded_dir_ids, selection,
                   edit_state, focus, blur_pending, tasks, calls>>

\* A destination computed under the anchor for renames too (entry.path.join
\* instead of parent.join).
NewPath_UnderAnchor(es, entry, filename) ==
    IF es.is_new_entry
    THEN PathJoin(entry.path, TrimStartMatchesSlash(filename))
    ELSE PathJoin(entry.path, filename)

\* The destination path confirm_edit computes for the session es anchored
\* at entry, with the text filename.
NewPath(es, entry, filename) ==
    IF es.is_new_entry
    THEN PathJoin(entry.path, TrimStartMatchesSlash(filename))
    ELSE IF HasParent(entry.path)
         THEN PathJoin(Parent(entry.path), filename)
         ELSE PathJoin(<<>>, filename)

\* confirm_edit gets past its `?` lookups: a session exists, its worktree is
\* in the project and its anchor entry is in the worktree.
ConfirmResolves ==
    /\ edit_state # None
    /\ HasWorktree(edit_state.worktree_id)
    /\ HasEntryForId(snapshot[edit_state.worktree_id], edit_state.entry_id)

ConfirmEntry == entry_for_id(snapshot[edit_state.worktree_id], edit_state.entry_id)

\* path_already_exists(new_path) of confirm_edit
PathAlreadyExists ==
    HasEntryForPath(snapshot[edit_state.worktree_id],
                    NewPath(edit_state, ConfirmEntry, filename_text))

\* A confirm_edit that selects the placeholder whatever the kind of session.
ConfirmSelection_AlwaysPlaceholder(es, sel) ==
    Selection(es.worktree_id, NEW_ENTRY_ID)

\* The selection confirm_edit leaves behind once its lookups have succeeded:
\* a new-entry session selects the placeholder before the conflict check.
ConfirmSelection(es, sel) ==
    IF es.is_new_entry THEN Selection(es.worktree_id, NEW_ENTRY_ID) ELSE sel

\* A confirm_edit that issues the operation without recording the pending name.
SubmittedState_NoPendingName(es, filename) == es

\* The session confirm_edit leaves behind when it accepts the name:
\* edit_state.processing_filename = Some(filename)
SubmittedState(es, filename) ==
    [es EXCEPT !.processing_filename = Some(filename)]

\* ProjectPanel::confirm, that is confirm_edit and the detach of its task.
confirm ==
    /\ StartedEdit
    /\ IF edit_state = None
       THEN /\ last' = Last("confirm", "no_session")
            /\ UNCHANGED <<project_vars, visible_entries, expanded_dir_ids,
                           selection, edit_state, filename_text, focus,
                           blur_pending, tasks, calls>>
       ELSE /\ FocusTo("panel")
            /\ UNCHANGED <<project_vars, visible_entries, expanded_dir_ids,
                           filename_text>>
            /\ IF ~ConfirmResolves
               THEN /\ last' = Last("confirm", "no_entry")
                    /\ UNCHANGED <<selection, edit_state, tasks, calls>>
               ELSE LET worktree_id == edit_state.worktree_id
                        entry == ConfirmEntry
                        new_path == NewPath(edit_state, entry, filename_text)
                        call == IF edit_state.is_new_entry
                                THEN [fn |-> "create_entry",
                                      worktree_id |-> worktree_id,
                                      path |-> new_path,
                                      is_dir |-> edit_state.is_dir]
                                ELSE [fn |-> "rename_entry",
                                      worktree_id |-> worktree_id,
                                      entry_id |-> entry.id,
                                      path |-> new_path]
                        task == [seq |-> Len(calls) + 1,
                                 call |-> call,
                                 worktree_id |-> worktree_id,
                                 edited_entry_id |->
                                    IF edit_state.is_new_entry
                                    THEN NEW_ENTRY_ID ELSE entry.id,
                                 is_new_entry |-> edit_state.is_new_entry,
                                 is_dir |-> edit_state.is_dir]
                    IN  /\ selection' = ConfirmSelection(edit_state, selection)
                        /\ IF PathAlreadyExists
                           THEN /\ last' = Last("confirm", "rejected")
                                /\ UNCHANGED <<edit_state, tasks, calls>>
                           ELSE /\ last' = Last("confirm", "submitted")
                                /\ edit_state' =
                                      SubmittedState(edit_state, filename_text)
                                /\ calls' = Append(calls, call)
                                /\ tasks' = tasks \cup {task}

\* A cancel that also drops the tasks of the submitted edits.
cancel_AbortsTasks ==
    /\ StartedEdit
    /\ last' = Last("cancel", "")
    /\ edit_state' = None
    /\ UpdateVisibleEntries(expanded_dir_ids, None, selection, None,
                            worktree_order, snapshot)
    /\ FocusTo("panel")
    /\ tasks' = {}
    /\ UNCHANGED <<project_vars, filename_text, calls>>

\* ProjectPanel::cancel
cancel ==
    /\ StartedEdit
    /\ last' = Last("cancel", "")
    /\ edit_state' = None
    /\ UpdateVisibleEntries(expanded_dir_ids, None, selection, None,
                            worktree_order, snapshot)
    /\ FocusTo("panel")
    /\ UNCHANGED <<project_vars, filename_text, tasks, calls>>

\* The focus leaves the panel and its editor (cx.blur(), a click elsewhere).
blur ==
    /\ StartedEdit
    /\ focus # "other"
    /\ FocusTo("other")
    /\ last' = Last("blur", "")
    /\ UNCHANGED <<project_vars, visible_entries, expanded_dir_ids, selection,
                   edit_state, filename_text, tasks, calls>>

\* A Blurred subscription that clears every session, submitted or not.
BlurCancels_AnySession(es) == es # None

\* A Blurred subscription that never clears a session being edited.
BlurCancels_KeepsEditing(es) == es # None /\ es.processing_filename # None

\* The condition under which the Blurred subscription clears the session:
\* edit_state.map_or(false, |state| state.processing_filename.is_none())
BlurCancels(es) == es # None /\ es.processing_filename = None

\* The subscription to filename_editor: editor::EditorEvent::Blurred.  It runs
\* when the effects of the handler that moved the focus are flushed, before
\* any other handler; last.cause names that handler.
filename_editor_blurred ==
    /\ blur_pending
    /\ blur_pending' = FALSE
    /\ last' = [op |-> "blurred", result |-> last.result, cause |-> last.op]
    /\ IF BlurCancels(edit_state)
       THEN /\ edit_state' = None
            /\ UpdateVisibleEntries(expanded_dir_ids, None, selection, None,
                                    worktree_order, snapshot)
       ELSE UNCHANGED <<edit_state, visible_entries, expanded_dir_ids, selection>>
    /\ UNCHANGED <<project_vars, filename_text, focus, tasks, calls, actions,
                   clipboard_vars, delete_vars, events,
                   expand_requests>>

\* ---------------------------------------------------------------------------
\* The project's side of create_entry / rename_entry (consumed interface)
\* ---------------------------------------------------------------------------

\* A destination path the worktree can create: relative, not empty, and no
\* existing proper ancestor of it is a file.
CanCreateAt(snap, path) ==
    /\ path # <<>>
    /\ \A k \in 1..Len(path) : path[k] # <<SLASH>>
    /\ ~HasEntryForPath(snap, path)
    /\ \A k \in 0..(Len(path) - 1) :
          HasEntryForPath(snap, SubSeq(path, 1, k))
              => entry_for_path(snap, SubSeq(path, 1, k)).is_dir

\* The prefixes of path (the path included) that have no entry yet, by length.
MissingPrefixLengths(snap, path) ==
    {k \in 1..Len(path) : ~HasEntryForPath(snap, SubSeq(path, 1, k))}

\* The snapshot after create_entry(path, is_dir) succeeded: the missing
\* ancestors are created as directories, shallowest first, with fresh ids.
SnapshotAfterCreate(snap, path, is_dir, first_id) ==
    LET missing == MissingPrefixLengths(snap, path)
        IdOf(k) == first_id + Cardinality({j \in missing : j < k})
    IN  snap \cup {Entry(IdOf(k), SubSeq(path, 1, k),
                         IF k = Len(path) THEN is_dir ELSE TRUE) : k \in missing}

\* rename_entry(entry_id, path) can succeed: the entry exists and is not the
\* root, the destination is free and its parent is an existing directory.
CanRenameTo(snap, entry_id, path) ==
    /\ HasEntryForId(snap, entry_id)
    /\ entry_for_id(snap, entry_id).path # <<>>
    /\ path # <<>>
    /\ \A k \in 1..Len(path) : path[k] # <<SLASH>>
    /\ ~HasEntryForPath(snap, path)
    /\ HasEntryForPath(snap, Parent(path))
    /\ entry_for_path(snap, Parent(path)).is_dir
    /\ ~IsPrefix(entry_for_id(snap, entry_id).path, path)

\* The snapshot after rename_entry succeeded: the entry and its descendants
\* keep their ids and move under the new path.
SnapshotAfterRename(snap, entry_id, path) ==
    LET old == entry_for_id(snap, entry_id).path
    IN  {IF IsPrefix(old, e.path)
         THEN [e EXCEPT !.path = path \o SubSeq(e.path, Len(old) + 1, Len(e.path))]
         ELSE e : e \in snap}

\* ---------------------------------------------------------------------------
\* ProjectPanel::expand_to_selection
\* ---------------------------------------------------------------------------

\* for path in entry.path.ancestors(): insert the directories, from the
\* entry's own path (k = Len) up to the root path (k = 0).
RECURSIVE ExpandAncestors(_, _, _, _)
ExpandAncestors(v, snap, path, k) ==
    IF k < 0 THEN v
    ELSE LET p == SubSeq(path, 1, k)
             v1 == IF HasEntryForPath(snap, p) /\ entry_for_path(snap, p).is_dir
                   THEN InsertIfAbsent(v, entry_for_path(snap, p).id)
                   ELSE v
         IN  ExpandAncestors(v1, snap, path, k - 1)

\* A completion that does not expand anything.
expand_to_selection_Skipped(exp, sel, order, snap) == exp

\* ProjectPanel::expand_to_selection
expand_to_selection(exp, sel, order, snap) ==
    IF /\ sel # None
       /\ \E k \in 1..Len(order) : order[k] = sel.worktree_id
       /\ HasEntryForId(snap[sel.worktree_id], sel.entry_id)
    THEN LET w == sel.worktree_id
             entry == entry_for_id(snap[w], sel.entry_id)
             v == IF w \in DOMAIN exp THEN exp[w] ELSE <<>>
             v1 == ExpandAncestors(v, snap[w], entry.path, Len(entry.path))
         IN  [x \in (DOMAIN exp) \cup {w} |-> IF x = w THEN v1 ELSE exp[x]]
    ELSE exp

\* ---------------------------------------------------------------------------
\* The completion task spawned by confirm_edit
\* ---------------------------------------------------------------------------

\* The external operation of task can succeed on the current snapshots.
CanSucceed(task) ==
    /\ HasWorktree(task.worktree_id)
    /\ IF task.call.fn = "create_entry"
       THEN CanCreateAt(snapshot[task.worktree_id], task.call.path)
       ELSE CanRenameTo(snapshot[task.worktree_id], task.call.entry_id,
                        task.call.path)

\* A completion that retargets whatever is selected.
StillOnEditedEntry_AnySelection(sel, task) == sel # None

\* if let Some(selection) = &mut this.selection {
\*     if selection.entry_id == edited_entry_id { .. } }
StillOnEditedEntry(sel, task) ==
    sel # None /\ sel.entry_id = task.edited_entry_id

\* The task resumes with Ok(Some(new_entry)): the worktree has produced the
\* entry, the project has notified its observers (a rebuild), and then the
\* two updates of the task run.
complete_ok(task) ==
    /\ ~blur_pending
    /\ task \in tasks
    /\ CanSucceed(task)
    /\ LET w == task.worktree_id
           snap1 == IF task.call.fn = "create_entry"
                    THEN SnapshotAfterCreate(snapshot[w], task.call.path,
                                             task.call.is_dir, next_entry_id)
                    ELSE SnapshotAfterRename(snapshot[w], task.call.entry_id,
                                             task.call.path)
           snap == [snapshot EXCEPT ![w] = snap1]
           new_entry == entry_for_path(snap1, task.call.path)
           created == IF task.call.fn = "create_entry"
                      THEN Cardinality(MissingPrefixLengths(snapshot[w],
                                                            task.call.path))
                      ELSE 0
           observed == ExpandedAfterRebuild(expanded_dir_ids, worktree_order, snap)
           retarget == StillOnEditedEntry(selection, task)
           sel == IF retarget THEN Selection(w, new_entry.id) ELSE selection
           exp == IF retarget
                  THEN expand_to_selection(observed, sel, worktree_order, snap)
                  ELSE observed
       IN  /\ snapshot' = snap
           /\ next_entry_id' = next_entry_id + created
           /\ edit_state' = None
           /\ UpdateVisibleEntries(exp, None, sel, None, worktree_order, snap)
    /\ tasks' = tasks \ {task}
    /\ last' = Last("complete", "ok")
    /\ UNCHANGED <<worktree_order, filename_text, focus, blur_pending, calls,
                   actions, clipboard_vars, delete_vars, events,
                   expand_requests>>

\* A task that stops at the failed operation without taking edit_state.
complete_without_entry_KeepsSession(task, result) ==
    /\ ~blur_pending
    /\ task \in tasks
    /\ tasks' = tasks \ {task}
    /\ last' = Last("complete", result)
    /\ UNCHANGED <<project_vars, visible_entries, expanded_dir_ids, selection,
                   edit_state, filename_text, focus, blur_pending, calls,
                   actions, clipboard_vars, delete_vars, events,
                   expand_requests>>

\* The task resumes with Ok(None) (result "none") or with an error (result
\* "err"): only the first update of the task runs.
complete_without_entry(task, result) ==
    /\ ~blur_pending
    /\ task \in tasks
    /\ edit_state' = None
    /\ tasks' = tasks \ {task}
    /\ last' = Last("complete", result)
    /\ UNCHANGED <<project_vars, visible_entries, expanded_dir_ids, selection,
                   filename_text, focus, blur_pending, calls, actions,
                   clipboard_vars, delete_vars, events,
                   expand_requests>>

\* ---------------------------------------------------------------------------
\* Selection: index_for_selection, select_first, select_next, select_prev
\* ---------------------------------------------------------------------------

\* Position (0-based) of the entry with the given id in a list, or Len.
RECURSIVE PositionOfId(_, _, _)
PositionOfId(entries, id, k) ==
    IF k > Len(entries) THEN Len(entries)
    ELSE IF entries[k].id = id THEN k - 1
    ELSE PositionOfId(entries, id, k + 1)

\* An index_for_selection that does not count the entries of the roots it
\* passes over (visible_entries_index += worktree_entries.len() left out).
RECURSIVE IndexForSelectionFrom_NoSkip(_, _, _, _)
IndexForSelectionFrom_NoSkip(visible, sel, k, visible_entries_index) ==
    IF k > Len(visible) THEN None
    ELSE IF visible[k].worktree_id = sel.worktree_id
         THEN LET pos == PositionOfId(visible[k].entries, sel.entry_id, 1)
              IN  IF pos < Len(visible[k].entries)
                  THEN [worktree_ix |-> k - 1, entry_ix |-> pos,
                        flat_ix |-> visible_entries_index + pos]
                  ELSE None
         ELSE IndexForSelectionFrom_NoSkip(visible, sel, k + 1,
                                           visible_entries_index)

\* ProjectPanel::index_for_selection: None or
\* [worktree_ix, entry_ix, flat_ix], all 0-based.
RECURSIVE IndexForSelectionFrom(_, _, _, _)
IndexForSelectionFrom(visible, sel, k, visible_entries_index) ==
    IF k > Len(visible) THEN None
    ELSE IF visible[k].worktree_id = sel.worktree_id
         THEN LET pos == PositionOfId(visible[k].entries, sel.entry_id, 1)
              IN  IF pos < Len(visible[k].entries)
                  THEN [worktree_ix |-> k - 1, entry_ix |-> pos,
                        flat_ix |-> visible_entries_index + pos]
                  ELSE None
         ELSE IndexForSelectionFrom(visible, sel, k + 1,
                  visible_entries_index + Len(visible[k].entries))

index_for_selection(visible, sel) == IndexForSelectionFrom(visible, sel, 1, 0)

\* .unwrap_or_default()
IndexOrDefault(visible, sel) ==
    LET r == index_for_selection(visible, sel)
    IN  IF r = None THEN [worktree_ix |-> 0, entry_ix |-> 0, flat_ix |-> 0]
        ELSE r

\* A select_first that never selects.
SelectFirst_Nothing(sel) == sel

\* The selection select_first leaves behind.
SelectFirst(sel) ==
    IF /\ Len(visible_entries) > 0
       /\ HasWorktree(visible_entries[1].worktree_id)
       /\ HasRootEntry(snapshot[visible_entries[1].worktree_id])
    THEN Selection(visible_entries[1].worktree_id,
                   root_entry(snapshot[visible_entries[1].worktree_id]).id)
    ELSE sel

\* The selection select_next leaves behind.
SelectNext(sel) ==
    IF sel = None THEN SelectFirst(sel)
    ELSE LET ix == IndexOrDefault(visible_entries, sel)
             in_range == ix.worktree_ix < Len(visible_entries)
             step == in_range /\
                     ix.entry_ix + 1 <
                        Len(visible_entries[ix.worktree_ix + 1].entries)
             worktree_ix == IF in_range /\ ~step THEN ix.worktree_ix + 1
                            ELSE ix.worktree_ix
             entry_ix == IF ~in_range THEN ix.entry_ix
                         ELSE IF step THEN ix.entry_ix + 1 ELSE 0
         IN  IF /\ worktree_ix < Len(visible_entries)
                /\ entry_ix < Len(visible_entries[worktree_ix + 1].entries)
             THEN Selection(visible_entries[worktree_ix + 1].worktree_id,
                     visible_entries[worktree_ix + 1].entries[entry_ix + 1].id)
             ELSE sel

\* ProjectPanel::select_next
select_next ==
    /\ StartedTree
    /\ selection' = SelectNext(selection)
    /\ last' = Last("select_next", "")
    /\ UNCHANGED <<project_vars, visible_entries, expanded_dir_ids, edit_state,
                   filename_text, focus, blur_pending, tasks, calls, expand_requests>>

\* The indices select_prev computes: [ok, worktree_ix, entry_ix]; ok is FALSE
\* when the handler returns early, and the indices are out of the projection
\* when the indexing panics.
SelectPrevIndex(sel) ==
    LET ix == IndexOrDefault(visible_entries, sel)
    IN  IF ix.entry_ix > 0
        THEN [ok |-> TRUE, worktree_ix |-> ix.worktree_ix,
              entry_ix |-> ix.entry_ix - 1]
        ELSE IF ix.worktree_ix > 0
        THEN [ok |-> TRUE, worktree_ix |-> ix.worktree_ix - 1,
              entry_ix |-> Len(visible_entries[ix.worktree_ix].entries) - 1]
        ELSE [ok |-> FALSE, worktree_ix |-> 0, entry_ix |-> 0]

SelectPrevInBounds(ix) ==
    /\ ix.worktree_ix < Len(visible_entries)
    /\ ix.entry_ix >= 0
    /\ ix.entry_ix < Len(visible_entries[ix.worktree_ix + 1].entries)

\* ProjectPanel::select_prev
select_prev ==
    /\ StartedTree
    /\ IF selection = None
       THEN /\ selection' = SelectFirst(selection)
            /\ last' = Last("select_prev", "")
       ELSE LET ix == SelectPrevIndex(selection)
            IN  IF ~ix.ok
                THEN /\ selection' = selection
                     /\ last' = Last("select_prev", "")
                ELSE IF SelectPrevInBounds(ix)
                THEN /\ selection' =
                          Selection(visible_entries[ix.worktree_ix + 1].worktree_id,
                                    visible_entries[ix.worktree_ix + 1]
                                        .entries[ix.entry_ix + 1].id)
                     /\ last' = Last("select_prev", "")
                ELSE /\ selection' = selection
                     /\ last' = Last("select_prev", "panic")
    /\ UNCHANGED <<project_vars, visible_entries, expanded_dir_ids, edit_state,
                   filename_text, focus, blur_pending, tasks, calls, expand_requests>>

\* ---------------------------------------------------------------------------
\* Expansion: expand_selected_entry, collapse_selected_entry,
\* collapse_all_entries, toggle_expanded, expand_entry
\* ---------------------------------------------------------------------------

\* An expand_selected_entry that leaves the selection on a directory that is
\* expanded already.
ExpandSelectedEntry_StaysWhenExpanded(exp, sel) ==
    IF /\ sel # None
       /\ HasWorktree(sel.worktree_id)
       /\ HasEntryForId(snapshot[sel.worktree_id], sel.entry_id)
       /\ entry_for_id(snapshot[sel.worktree_id], sel.entry_id).is_dir
       /\ sel.worktree_id \in DOMAIN exp
       /\ ~binary_search(exp[sel.worktree_id], sel.entry_id).found
    THEN [exp |-> [exp EXCEPT ![sel.worktree_id] =
                      VecInsert(@, binary_search(@, sel.entry_id).ix, sel.entry_id)],
          sel |-> sel, rebuilt |-> TRUE, requested |-> TRUE]
    ELSE [exp |-> exp, sel |-> sel, rebuilt |-> FALSE, requested |-> FALSE]

\* What expand_selected_entry does to the expansion table exp and to the
\* selection sel: [exp, sel, rebuilt, requested], rebuilt when
\* update_visible_entries is called, requested when project.expand_entry is
\* called for the selected entry.
ExpandSelectedEntry(exp, sel) ==
    IF /\ sel # None
       /\ HasWorktree(sel.worktree_id)
       /\ HasEntryForId(snapshot[sel.worktree_id], sel.entry_id)
       /\ entry_for_id(snapshot[sel.worktree_id], sel.entry_id).is_dir
       /\ sel.worktree_id \in DOMAIN exp
    THEN LET w == sel.worktree_id
             r == binary_search(exp[w], sel.entry_id)
         IN  IF r.found
             THEN [exp |-> exp, sel |-> SelectNext(sel), rebuilt |-> FALSE,
                   requested |-> FALSE]
             ELSE [exp |-> [exp EXCEPT ![w] = VecInsert(@, r.ix, sel.entry_id)],
                   sel |-> sel, rebuilt |-> TRUE, requested |-> TRUE]
    ELSE [exp |-> exp, sel |-> sel, rebuilt |-> FALSE, requested |-> FALSE]

\* ProjectPanel::expand_selected_entry
expand_selected_entry ==
    /\ StartedTree
    /\ last' = Last("expand_selected_entry", "")
    /\ LET r == ExpandSelectedEntry(expanded_dir_ids, selection)
       IN  IF r.rebuilt
           THEN UpdateVisibleEntries(r.exp, edit_state, r.sel, None,
                                     worktree_order, snapshot)
           ELSE /\ selection' = r.sel
                /\ UNCHANGED <<visible_entries, expanded_dir_ids>>
    /\ expand_requests' = IF ExpandSelectedEntry(expanded_dir_ids, selection).requested
                          THEN Append(expand_requests,
                                      [worktree_id |-> selection.worktree_id,
                                       entry_id |-> selection.entry_id])
                          ELSE expand_requests
    /\ UNCHANGED <<project_vars, edit_state, filename_text, focus,
                   blur_pending, tasks, calls>>

\* A loop that looks at the selected entry only and never walks up.
FirstExpandedUpward_SelectedOnly(snap, v, entry) ==
    IF binary_search(v, entry.id).found THEN entry ELSE None

\* The loop of collapse_selected_entry: the first entry, from entry upward,
\* whose id is in the expansion vector v; None when there is none.
RECURSIVE FirstExpandedUpward(_, _, _)
FirstExpandedUpward(snap, v, entry) ==
    IF binary_search(v, entry.id).found THEN entry
    ELSE IF HasParent(entry.path) /\ HasEntryForPath(snap, Parent(entry.path))
         THEN FirstExpandedUpward(snap, v, entry_for_path(snap, Parent(entry.path)))
         ELSE None

\* What collapse_selected_entry does to the expansion table exp and to the
\* selection sel: [exp, sel, rebuilt].
CollapseSelectedEntry(exp, sel) ==
    LET resolves == /\ sel # None
                    /\ HasWorktree(sel.worktree_id)
                    /\ HasEntryForId(snapshot[sel.worktree_id], sel.entry_id)
                    /\ sel.worktree_id \in DOMAIN exp
        entry == IF resolves
                 THEN FirstExpandedUpward(
                         snapshot[sel.worktree_id], exp[sel.worktree_id],
                         entry_for_id(snapshot[sel.worktree_id], sel.entry_id))
                 ELSE None
    IN  IF entry # None
        THEN [exp |-> [exp EXCEPT ![sel.worktree_id] =
                          VecRemove(@, binary_search(@, entry.id).ix)],
              sel |-> Selection(sel.worktree_id, entry.id),
              rebuilt |-> TRUE]
        ELSE [exp |-> exp, sel |-> sel, rebuilt |-> FALSE]

\* ProjectPanel::collapse_selected_entry
collapse_selected_entry ==
    /\ StartedTree
    /\ last' = Last("collapse_selected_entry", "")
    /\ LET r == CollapseSelectedEntry(expanded_dir_ids, selection)
       IN  IF r.rebuilt
           THEN UpdateVisibleEntries(r.exp, edit_state, selection, r.sel,
                                     worktree_order, snapshot)
           ELSE UNCHANGED <<visible_entries, expanded_dir_ids, selection>>
    /\ UNCHANGED <<project_vars, edit_state, filename_text, focus,
                   blur_pending, tasks, calls, expand_requests>>

\* ProjectPanel::collapse_all_entries
collapse_all_entries ==
    /\ StartedTree
    /\ last' = Last("collapse_all_entries", "")
    /\ UpdateVisibleEntries(<<>>, edit_state, selection, None,
                            worktree_order, snapshot)
    /\ UNCHANGED <<project_vars, edit_state, filename_text, focus,
                   blur_pending, tasks, calls, expand_requests>>

\* The rows render_entry gives a click handler that toggles: directory rows.
DirectoryRowIds ==
    UNION {{visible_entries[k].entries[i].id :
                i \in {j \in 1..Len(visible_entries[k].entries) :
                          visible_entries[k].entries[j].is_dir}} :
           k \in 1..Len(visible_entries)}

\* What toggle_expanded(entry_id) does to the expansion table exp and to the
\* selection sel: [exp, sel, rebuilt, requested].
ToggleExpanded(exp, sel, entry_id) ==
    IF /\ HasWorktreeForEntry(entry_id)
       /\ worktree_id_for_entry(entry_id) \in DOMAIN exp
    THEN LET w == worktree_id_for_entry(entry_id)
             r == binary_search(exp[w], entry_id)
         IN  [exp |-> [exp EXCEPT ![w] = IF r.found THEN VecRemove(@, r.ix)
                                        ELSE VecInsert(@, r.ix, entry_id)],
              sel |-> Selection(w, entry_id),
              rebuilt |-> TRUE,
              requested |-> ~r.found]
    ELSE [exp |-> exp, sel |-> sel, rebuilt |-> FALSE, requested |-> FALSE]

\* ProjectPanel::toggle_expanded(entry_id)
toggle_expanded(entry_id) ==
    /\ StartedTree
    /\ last' = Last("toggle_expanded", "")
    /\ LET r == ToggleExpanded(expanded_dir_ids, selection, entry_id)
       IN  IF r.rebuilt
           THEN /\ UpdateVisibleEntries(r.exp, edit_state, selection, r.sel,
                                        worktree_order, snapshot)
                /\ FocusTo("panel")
           ELSE UNCHANGED <<visible_entries, expanded_dir_ids, selection, focus,
                            blur_pending>>
    /\ expand_requests' =
          IF ToggleExpanded(expanded_dir_ids, selection, entry_id).requested
          THEN Append(expand_requests,
                      [worktree_id |-> worktree_id_for_entry(entry_id),
                       entry_id |-> entry_id])
          ELSE expand_requests
    /\ UNCHANGED <<project_vars, edit_state, filename_text, tasks, calls>>

\* The loop of expand_entry: the entry and every entry on its parent chain
\* are inserted into the expansion vector.
RECURSIVE ExpandUpward(_, _, _)
ExpandUpward(snap, v, entry) ==
    LET v1 == InsertIfAbsent(v, entry.id)
    IN  IF HasParent(entry.path) /\ HasEntryForPath(snap, Parent(entry.path))
        THEN ExpandUpward(snap, v1, entry_for_path(snap, Parent(entry.path)))
        ELSE v1

\* expand_entry calls project.expand_entry: the worktree and its expansion
\* vector are found.
ExpandEntryRequests(exp, w) == HasWorktree(w) /\ w \in DOMAIN exp

\* ProjectPanel::expand_entry(worktree_id, entry_id)
expand_entry(exp, w, entry_id) ==
    IF HasWorktree(w) /\ w \in DOMAIN exp /\ HasEntryForId(snapshot[w], entry_id)
    THEN [exp EXCEPT ![w] = ExpandUpward(snapshot[w], @,
                                         entry_for_id(snapshot[w], entry_id))]
    ELSE exp

\* ---------------------------------------------------------------------------
\* Project events
\* ---------------------------------------------------------------------------

\* project::Event::ActiveEntryChanged(Some(entry_id))
active_entry_changed(entry_id) ==
    /\ StartedTree
    /\ HasWorktreeForEntry(entry_id)
    /\ last' = Last("active_entry_changed", "")
    /\ LET w == worktree_id_for_entry(entry_id)
       IN  /\ UpdateVisibleEntries(expand_entry(expanded_dir_ids, w, entry_id),
                                   edit_state, selection, Selection(w, entry_id),
                                   worktree_order, snapshot)
           /\ expand_requests' =
                 IF ExpandEntryRequests(expanded_dir_ids, w)
                 THEN Append(expand_requests,
                             [worktree_id |-> w, entry_id |-> entry_id])
                 ELSE expand_requests
    /\ UNCHANGED <<project_vars, edit_state, filename_text, focus,
                   blur_pending, tasks, calls>>

\* The observer of the project (cx.observe(&project, ...)): a worktree has
\* reported a new snapshot, here one in which the entry with the given id and
\* its descendants have been deleted by another program.
project_updated(w, entry_id) ==
    /\ StartedTree
    /\ HasWorktree(w)
    /\ HasEntryForId(snapshot[w], entry_id)
    /\ entry_for_id(snapshot[w], entry_id).path # <<>>
    /\ last' = Last("project_updated", "")
    /\ snapshot' = [snapshot EXCEPT ![w] =
                       {e \in @ : ~IsPrefix(entry_for_id(@, entry_id).path, e.path)}]
    /\ UpdateVisibleEntries(expanded_dir_ids, edit_state, selection, None,
                            worktree_order, snapshot')
    /\ UNCHANGED <<worktree_order, next_entry_id, edit_state, filename_text,
                   focus, blur_pending, tasks, calls, expand_requests>>

\* Removes w from a sequence of worktree ids.
RECURSIVE WithoutWorktree(_, _)
WithoutWorktree(order, w) ==
    IF order = <<>> THEN <<>>
    ELSE IF Head(order) = w THEN WithoutWorktree(Tail(order), w)
    ELSE <<Head(order)>> \o WithoutWorktree(Tail(order), w)

\* project::Event::WorktreeRemoved(id): the worktree has left the project.
worktree_removed(w) ==
    /\ StartedTree
    /\ HasWorktree(w)
    /\ last' = Last("worktree_removed", "")
    /\ worktree_order' = WithoutWorktree(worktree_order, w)
    /\ snapshot' = [snapshot EXCEPT ![w] = {}]
    /\ UpdateVisibleEntries(
          [x \in (DOMAIN expanded_dir_ids) \ {w} |-> expanded_dir_ids[x]],
          edit_state, selection, None, worktree_order', snapshot')
    /\ UNCHANGED <<next_entry_id, edit_state, filename_text, focus,
                   blur_pending, tasks, calls, expand_requests>>

\* ---------------------------------------------------------------------------
\* Events of the panel
\* ---------------------------------------------------------------------------

\* A handler that may emit an event of the panel, started by the environment.
StartedEmitter ==
    /\ ~blur_pending
    /\ tree_actions < MaxPasteActions
    /\ tree_actions' = tree_actions + 1
    /\ UNCHANGED <<edit_actions, clipboard_vars, delete_vars, expand_requests>>

\* A search handler that does not look at the kind of the selected entry.
SearchesDirectory_AnyEntry == HasSelectedEntry

\* new_search_in_directory: the selection resolves to an entry and the entry
\* is a directory.
SearchesDirectory == HasSelectedEntry /\ selected_entry.is_dir

\* ProjectPanel::new_search_in_directory
new_search_in_directory ==
    /\ StartedEmitter
    /\ IF SearchesDirectory
       THEN /\ events' = Append(events, [event |-> "NewSearchInDirectory",
                                         dir_entry |-> selected_entry])
            /\ last' = Last("new_search_in_directory", "emitted")
       ELSE /\ UNCHANGED events
            /\ last' = Last("new_search_in_directory", "none")
    /\ UNCHANGED <<project_vars, visible_entries, expanded_dir_ids, selection,
                   edit_state, filename_text, focus, blur_pending, tasks, calls>>

\* project::Event::ActivateProjectPanel
activate_project_panel ==
    /\ StartedEmitter
    /\ events' = Append(events, [event |-> "ActivatePanel"])
    /\ last' = Last("activate_project_panel", "emitted")
    /\ UNCHANGED <<project_vars, visible_entries, expanded_dir_ids, selection,
                   edit_state, filename_text, focus, blur_pending, tasks, calls>>

\* ---------------------------------------------------------------------------
\* Clipboard: cut, copy, paste
\* ---------------------------------------------------------------------------

\* A clipboard entry that is Copied whatever the handler.
ClipboardEntry_AlwaysCopied(kind, worktree_id, entry_id) ==
    [kind |-> "copy", worktree_id |-> worktree_id, entry_id |-> entry_id]

\* enum ClipboardEntry { Copied { .. }, Cut { .. } }
ClipboardEntry(kind, worktree_id, entry_id) ==
    [kind |-> kind, worktree_id |-> worktree_id, entry_id |-> entry_id]

\* A clipboard handler started by the environment.
StartedPaste ==
    /\ ~blur_pending
    /\ tree_actions < MaxPasteActions
    /\ tree_actions' = tree_actions + 1
    /\ UNCHANGED <<edit_actions, delete_vars, events,
                   expand_requests>>

\* The body shared by cut and copy.
SetClipboard(kind) ==
    /\ IF HasSelectedEntry
       THEN /\ clipboard_entry' = ClipboardEntry(kind, selection.worktree_id,
                                                 selected_entry.id)
            /\ last' = Last(kind, "set")
       ELSE /\ UNCHANGED clipboard_entry
            /\ last' = Last(kind, "none")
    /\ UNCHANGED <<project_vars, visible_entries, expanded_dir_ids, selection,
                   edit_state, filename_text, focus, blur_pending, tasks, calls,
                   pastes>>

\* ProjectPanel::cut
cut == StartedPaste /\ SetClipboard("cut")

\* ProjectPanel::copy
copy == StartedPaste /\ SetClipboard("copy")

\* The position of the last '.' of a name at or before k, 0 when there is none.
RECURSIVE LastDot(_, _)
LastDot(name, k) ==
    IF k = 0 THEN 0
    ELSE IF name[k] = DOT THEN k
    ELSE LastDot(name, k - 1)

\* Path::extension of a file name: None without a '.', None when the only
\* '.' is the first character, else what follows the last '.'.
Extension(name) ==
    LET dot == LastDot(name, Len(name))
    IN  IF dot <= 1 THEN None
        ELSE Some(SubSeq(name, dot + 1, Len(name)))

\* Path::file_stem of a file name: the whole name without a '.' or when the
\* only '.' is the first character, else what precedes the last '.'.
FileStem(name) ==
    LET dot == LastDot(name, Len(name))
    IN  IF dot <= 1 THEN name
        ELSE SubSeq(name, 1, dot - 1)

\* format!("{}", ix): the decimal digits of ix.
RECURSIVE Decimal(_)
Decimal(ix) ==
    IF ix < 10 THEN <<DIGIT_0 + ix>>
    ELSE Decimal(ix \div 10) \o <<DIGIT_0 + (ix % 10)>>

\* A candidate name that numbers the first copy as well.
CopyFileName_AlwaysNumbered(stem, extension, ix) ==
    stem \o STR_copy \o <<SPACE>> \o Decimal(ix)
         \o (IF extension # None THEN <<DOT>> \o extension.some ELSE <<>>)

\* new_file_name in the loop of paste at counter ix
CopyFileName(stem, extension, ix) ==
    stem \o STR_copy
         \o (IF ix > 0 THEN <<SPACE>> \o Decimal(ix) ELSE <<>>)
         \o (IF extension # None THEN <<DOT>> \o extension.some ELSE <<>>)

\* while worktree.entry_for_path(&new_path).is_some() { .. }
RECURSIVE PasteLoop(_, _, _, _, _, _)
PasteLoop(snap, dir, stem, extension, new_path, ix) ==
    IF ~HasEntryForPath(snap, new_path) THEN new_path
    ELSE PasteLoop(snap, dir, stem, extension,
                   Append(dir, CopyFileName(stem, extension, ix)), ix + 1)

\* A paste that does not compare the root of the clipboard entry with the
\* root of the selection.
PasteResolves_AnyRoot ==
    /\ HasSelectedEntry
    /\ clipboard_entry # None
    /\ HasWorktreeForEntry(clipboard_entry.entry_id)
    /\ entry_for_id(snapshot[worktree_id_for_entry(clipboard_entry.entry_id)],
                    clipboard_entry.entry_id).path # <<>>

\* The early returns of paste: a selected entry, a clipboard entry of the
\* same worktree that the project still has, with a file name.
PasteResolves ==
    /\ HasSelectedEntry
    /\ clipboard_entry # None
    /\ clipboard_entry.worktree_id = selection.worktree_id
    /\ HasWorktreeForEntry(clipboard_entry.entry_id)
    /\ entry_for_id(snapshot[worktree_id_for_entry(clipboard_entry.entry_id)],
                    clipboard_entry.entry_id).path # <<>>

\* The directory paste puts the entry into: the selected directory, or the
\* directory of the selected file.
PasteDirectory ==
    IF selected_entry.is_dir THEN selected_entry.path
    ELSE Parent(selected_entry.path)

\* The name of the entry on the clipboard, looked up in the project.
ClipboardFileName ==
    FileName(entry_for_id(snapshot[worktree_id_for_entry(clipboard_entry.entry_id)],
                          clipboard_entry.entry_id).path)

\* new_path when the loop of paste ends
PastePath ==
    PasteLoop(snapshot[selection.worktree_id], PasteDirectory,
              FileStem(ClipboardFileName), Extension(ClipboardFileName),
              Append(PasteDirectory, ClipboardFileName), 0)

\* ProjectPanel::paste
paste ==
    /\ StartedPaste
    /\ IF PasteResolves
       THEN LET call == [fn |-> IF clipboard_entry.kind = "cut"
                               THEN "rename_entry" ELSE "copy_entry",
                         worktree_id |-> selection.worktree_id,
                         entry_id |-> clipboard_entry.entry_id,
                         path |-> PastePath]
            IN  /\ calls' = Append(calls, call)
                /\ pastes' = pastes \cup {[seq |-> Len(calls) + 1, call |-> call]}
                /\ last' = Last("paste", "issued")
       ELSE /\ UNCHANGED <<calls, pastes>>
            /\ last' = Last("paste", "none")
    /\ UNCHANGED <<project_vars, visible_entries, expanded_dir_ids, selection,
                   edit_state, filename_text, focus, blur_pending, tasks,
                   clipboard_entry>>

\* copy_entry(entry_id, path) can succeed: the entry exists, the destination
\* is free, lies in an existing directory and not inside the entry itself.
CanCopyTo(snap, entry_id, path) ==
    /\ HasEntryForId(snap, entry_id)
    /\ path # <<>>
    /\ ~HasEntryForPath(snap, path)
    /\ HasEntryForPath(snap, Parent(path))
    /\ entry_for_path(snap, Parent(path)).is_dir
    /\ ~IsPrefix(entry_for_id(snap, entry_id).path, path)

\* The snapshot after copy_entry succeeded: the entry and its descendants
\* appear under the new path with fresh ids, in path order.
SnapshotAfterCopy(snap, entry_id, path, first_id) ==
    LET old == entry_for_id(snap, entry_id).path
        sub == EntriesInPathOrder({e \in snap : IsPrefix(old, e.path)})
    IN  snap \cup {Entry(first_id + i - 1,
                         path \o SubSeq(sub[i].path, Len(old) + 1, Len(sub[i].path)),
                         sub[i].is_dir) : i \in 1..Len(sub)}

\* The operation of p can succeed on the current snapshot.
CanPasteSucceed(p) ==
    /\ HasWorktree(p.call.worktree_id)
    /\ IF p.call.fn = "copy_entry"
       THEN CanCopyTo(snapshot[p.call.worktree_id], p.call.entry_id, p.call.path)
       ELSE CanRenameTo(snapshot[p.call.worktree_id], p.call.entry_id, p.call.path)

\* The operation issued by a paste has succeeded: the worktree has produced
\* the entries and the project has notified its observers (a rebuild). The
\* task was detached: the panel does nothing else.
paste_completed(p) ==
    /\ ~blur_pending
    /\ p \in pastes
    /\ CanPasteSucceed(p)
    /\ LET w == p.call.worktree_id
           copied == IF p.call.fn = "copy_entry"
                     THEN Cardinality({e \in snapshot[w] :
                             IsPrefix(entry_for_id(snapshot[w], p.call.entry_id).path,
                                      e.path)})
                     ELSE 0
           snap1 == IF p.call.fn = "copy_entry"
                    THEN SnapshotAfterCopy(snapshot[w], p.call.entry_id,
                                           p.call.path, next_entry_id)
                    ELSE SnapshotAfterRename(snapshot[w], p.call.entry_id,
                                             p.call.path)
       IN  /\ snapshot' = [snapshot EXCEPT ![w] = snap1]
           /\ next_entry_id' = next_entry_id + copied
    /\ UpdateVisibleEntries(expanded_dir_ids, edit_state, selection, None,
                            worktree_order, snapshot')
    /\ pastes' = pastes \ {p}
    /\ last' = Last("paste_completed", "ok")
    /\ UNCHANGED <<worktree_order, edit_state, filename_text, focus,
                   blur_pending, tasks, calls, actions, clipboard_entry, delete_vars, events,
                   expand_requests>>

\* The operation issued by a paste has failed (detach_and_log_err): the
\* error is logged and nothing changes.
paste_failed(p) ==
    /\ ~blur_pending
    /\ p \in pastes
    /\ pastes' = pastes \ {p}
    /\ last' = Last("paste_failed", "err")
    /\ UNCHANGED <<project_vars, visible_entries, expanded_dir_ids, selection,
                   edit_state, filename_text, focus, blur_pending, tasks, calls,
                   actions, clipboard_entry, delete_vars, events,
                   expand_requests>>

\* ---------------------------------------------------------------------------
\* Delete: the prompt and the detached task
\* ---------------------------------------------------------------------------

\* The delete handler started by the environment.
StartedDelete ==
    /\ ~blur_pending
    /\ tree_actions < MaxTreeActions
    /\ tree_actions' = tree_actions + 1
    /\ UNCHANGED <<edit_actions, clipboard_vars, events,
                   expand_requests>>

\* The early returns of delete: a selection whose entry id the project
\* resolves to a path with a file name.
DeleteResolves ==
    /\ selection # None
    /\ HasWorktreeForEntry(selection.entry_id)
    /\ entry_for_id(snapshot[worktree_id_for_entry(selection.entry_id)],
                    selection.entry_id).path # <<>>

\* ProjectPanel::delete: opens the prompt and spawns the task that waits for
\* the answer.
delete ==
    /\ StartedDelete
    /\ IF DeleteResolves
       THEN /\ prompts' = prompts \cup {[seq |-> tree_actions + 1,
                                         entry_id |-> selection.entry_id]}
            /\ last' = Last("delete", "prompt")
       ELSE /\ UNCHANGED prompts
            /\ last' = Last("delete", "none")
    /\ UNCHANGED <<project_vars, visible_entries, expanded_dir_ids, selection,
                   edit_state, filename_text, focus, blur_pending, tasks, calls,
                   deletes>>

\* A task that deletes whatever the answer is.
Affirmative_AnyAnswer(answer) == TRUE

\* if answer.await != Ok(0) { return Ok(()) }
Affirmative(answer) == answer = 0

\* &["Delete", "Cancel"]: the button of an answer index.
Button(answer) == IF answer = 0 THEN "Delete" ELSE "Cancel"

\* A task that reads the selection when it resumes.
DeletedEntryId_SelectedAtAnswer(p, sel) ==
    IF sel # None THEN sel.entry_id ELSE p.entry_id

\* The entry id the spawned task passes to project.delete_entry: the entry_id
\* the closure has captured from the selection when delete was invoked.
DeletedEntryId(p, sel) == p.entry_id

\* The prompt p has been answered with the button of the given index: the
\* spawned task resumes; last.cause names the button.
prompt_answered(p, answer) ==
    /\ ~blur_pending
    /\ p \in prompts
    /\ prompts' = prompts \ {p}
    /\ IF Affirmative(answer)
       THEN IF HasWorktreeForEntry(DeletedEntryId(p, selection))
            THEN LET entry_id == DeletedEntryId(p, selection)
                     call == [fn |-> "delete_entry",
                              worktree_id |-> worktree_id_for_entry(entry_id),
                              entry_id |-> entry_id]
                 IN  /\ calls' = Append(calls, call)
                     /\ deletes' = deletes \cup {[seq |-> Len(calls) + 1,
                                                   call |-> call]}
                     /\ last' = [op |-> "prompt_answered",
                                 result |-> "delete_entry",
                                 cause |-> Button(answer)]
            ELSE /\ UNCHANGED <<calls, deletes>>
                 /\ last' = [op |-> "prompt_answered",
                             result |-> "no such entry",
                             cause |-> Button(answer)]
       ELSE /\ UNCHANGED <<calls, deletes>>
            /\ last' = [op |-> "prompt_answered", result |-> "returned",
                        cause |-> Button(answer)]
    /\ UNCHANGED <<project_vars, visible_entries, expanded_dir_ids, selection,
                   edit_state, filename_text, focus, blur_pending, tasks,
                   actions, clipboard_vars, events,
                   expand_requests>>

\* The prompt p has been dismissed without an answer: answer.await is an
\* error and the task returns.
prompt_dismissed(p) ==
    /\ ~blur_pending
    /\ p \in prompts
    /\ prompts' = prompts \ {p}
    /\ last' = Last("prompt_dismissed", "returned")
    /\ UNCHANGED <<project_vars, visible_entries, expanded_dir_ids, selection,
                   edit_state, filename_text, focus, blur_pending, tasks, calls,
                   deletes, actions, clipboard_vars, events,
                   expand_requests>>

\* The delete operation d has succeeded: the worktree has dropped the entry
\* and its descendants and the project has notified its observers (a
\* rebuild).
delete_completed(d) ==
    /\ ~blur_pending
    /\ d \in deletes
    /\ HasWorktree(d.call.worktree_id)
    /\ HasEntryForId(snapshot[d.call.worktree_id], d.call.entry_id)
    /\ snapshot' = [snapshot EXCEPT ![d.call.worktree_id] =
                       {e \in @ : ~IsPrefix(entry_for_id(@, d.call.entry_id).path,
                                            e.path)}]
    /\ UpdateVisibleEntries(expanded_dir_ids, edit_state, selection, None,
                            worktree_order, snapshot')
    /\ deletes' = deletes \ {d}
    /\ last' = Last("delete_completed", "ok")
    /\ UNCHANGED <<worktree_order, next_entry_id, edit_state, filename_text,
                   focus, blur_pending, tasks, calls, prompts, actions,
                   clipboard_vars, events,
                   expand_requests>>

\* The delete operation d has failed (detach_and_log_err): the error is
\* logged and nothing changes.
delete_failed(d) ==
    /\ ~blur_pending
    /\ d \in deletes
    /\ deletes' = deletes \ {d}
    /\ last' = Last("delete_failed", "err")
    /\ UNCHANGED <<project_vars, visible_entries, expanded_dir_ids, selection,
                   edit_state, filename_text, focus, blur_pending, tasks, calls,
                   prompts, actions, clipboard_vars, events,
                   expand_requests>>

\* ---------------------------------------------------------------------------
\* ProjectPanel::for_each_visible_entry
\* ---------------------------------------------------------------------------

\* An entry range that is not rebased on the first flat index of the root
\* (range.start instead of range.start.saturating_sub(ix)).
EntryRange_NotRebased(range_start, end_ix, ix) ==
    [lo |-> range_start, hi |-> end_ix - ix]

\* let entry_range = range.start.saturating_sub(ix)..end_ix - ix
EntryRange(range_start, end_ix, ix) ==
    [lo |-> IF range_start > ix THEN range_start - ix ELSE 0,
     hi |-> end_ix - ix]

\* The entry of the edit session es, for the rows: the placeholder for a new
\* entry, the renamed entry otherwise.
IsEditedEntry(es, entry) ==
    /\ es # None
    /\ IF es.is_new_entry THEN entry.id = NEW_ENTRY_ID
       ELSE entry.id = es.entry_id

\* Details that flag the edited entry as being edited whether its name is
\* being processed or not.
EntryDetails_AlwaysEditing(worktree_id, entry) ==
    [id |-> entry.id,
     worktree_id |-> worktree_id,
     is_selected |-> /\ selection # None
                     /\ selection.worktree_id = worktree_id
                     /\ selection.entry_id = entry.id,
     is_editing |-> IsEditedEntry(edit_state, entry),
     is_processing |-> /\ IsEditedEntry(edit_state, entry)
                       /\ edit_state.processing_filename # None]

\* The id and the EntryDetails flags the callback is invoked with for an entry
\* of the list of worktree_id.
EntryDetails(worktree_id, entry) ==
    [id |-> entry.id,
     worktree_id |-> worktree_id,
     is_selected |-> /\ selection # None
                     /\ selection.worktree_id = worktree_id
                     /\ selection.entry_id = entry.id,
     is_editing |-> /\ IsEditedEntry(edit_state, entry)
                    /\ edit_state.processing_filename = None,
     is_processing |-> /\ IsEditedEntry(edit_state, entry)
                       /\ edit_state.processing_filename # None]

\* The loop over self.visible_entries: k is the root the loop is at, ix the
\* flat index of its first entry, acc what has happened so far: the ids the
\* callback has been invoked with, in order, the details it has been invoked
\* with, and whether the slicing visible_worktree_entries[entry_range] has
\* panicked.
RECURSIVE ForEachVisibleFrom(_, _, _, _, _, _)
ForEachVisibleFrom(visible, k, ix, range_start, range_end, acc) ==
    IF k > Len(visible) \/ acc.panic THEN acc
    ELSE IF ix >= range_end THEN acc
    ELSE LET entries == visible[k].entries
         IN  IF ix + Len(entries) <= range_start
             THEN ForEachVisibleFrom(visible, k + 1, ix + Len(entries),
                                     range_start, range_end, acc)
             ELSE LET end_ix == IF range_end < ix + Len(entries)
                                THEN range_end ELSE ix + Len(entries)
                      entry_range == EntryRange(range_start, end_ix, ix)
                      in_bounds == /\ entry_range.lo <= entry_range.hi
                                   /\ entry_range.hi <= Len(entries)
                      acc1 ==
                         IF ~HasWorktree(visible[k].worktree_id) THEN acc
                         ELSE IF ~in_bounds THEN [acc EXCEPT !.panic = TRUE]
                         ELSE [acc EXCEPT
                                  !.ids = @ \o
                                     [i \in 1..(entry_range.hi - entry_range.lo) |->
                                         entries[entry_range.lo + i].id],
                                  !.rows = @ \o
                                     [i \in 1..(entry_range.hi - entry_range.lo) |->
                                         EntryDetails(visible[k].worktree_id,
                                                      entries[entry_range.lo + i])]]
                  IN  ForEachVisibleFrom(visible, k + 1, end_ix,
                                         range_start, range_end, acc1)

\* ProjectPanel::for_each_visible_entry(range_start..range_end, callback)
for_each_visible_entry(visible, range_start, range_end) ==
    ForEachVisibleFrom(visible, 1, 0, range_start, range_end,
                       [ids |-> <<>>, rows |-> <<>>, panic |-> FALSE])

\* ---------------------------------------------------------------------------
\* Specification
\* ---------------------------------------------------------------------------

FileIds ==
    {e.id : e \in {x \in UNION {snapshot[w] : w \in WorktreeIds} : ~x.is_dir}}

Next ==
    \/ new_file
    \/ new_directory
    \/ rename
    \/ \E text \in Texts : set_text(text)
    \/ confirm
    \/ cancel
    \/ blur
    \/ filename_editor_blurred
    \/ \E task \in tasks : complete_ok(task)
    \/ \E task \in tasks : \E result \in {"none", "err"} :
          complete_without_entry(task, result)
    \/ select_next
    \/ select_prev
    \/ expand_selected_entry
    \/ collapse_selected_entry
    \/ collapse_all_entries
    \/ \E entry_id \in DirectoryRowIds : toggle_expanded(entry_id)
    \/ \E entry_id \in FileIds : active_entry_changed(entry_id)
    \/ \E w \in WorktreeIds : \E e \in snapshot[w] : project_updated(w, e.id)
    \/ \E w \in RemovableWorktrees : worktree_removed(w)

Spec == Init /\ [][Next]_vars

\* A pending Blurred event leaves the effect queue: the effects of a handler
\* are flushed when the handler returns (filename_editor_blurred is the one
\* action that resets blur_pending).
BlurredDelivered == blur_pending /\ blur_pending' = FALSE

\* A spawned task leaves the set of the tasks not yet resumed: the executor
\* resumes it when its external operation has completed (complete_ok and
\* complete_without_entry are the actions that remove a task).
TaskResumed == ~blur_pending /\ \E task \in tasks : tasks' = tasks \ {task}

\* Every pending Blurred event is delivered and every external operation in
\* flight completes, sooner or later.
FairSpec ==
    /\ Spec
    /\ WF_blur_pending(BlurredDelivered)
    /\ WF_tasks(TaskResumed)

\* ---------------------------------------------------------------------------
\* The panel opened on other projects: navigation over any arrangement of roots
\* ---------------------------------------------------------------------------

\* The file systems a worktree w can be opened on: not scanned yet (no root
\* entry), a lone root directory, a root with one file, a root with two files.
ListTrees(w) ==
    {{},
     {Entry(10 * w, <<>>, TRUE)},
     {Entry(10 * w, <<>>, TRUE), Entry(10 * w + 1, <<STR_a>>, FALSE)},
     {Entry(10 * w, <<>>, TRUE), Entry(10 * w + 1, <<STR_a>>, FALSE),
      Entry(10 * w + 2, <<STR_b>>, FALSE)}}

\* ProjectPanel::new on a project of three worktrees, each on any of these
\* file systems.
ListInit ==
    /\ worktree_order = <<1, 2, 3>>
    /\ snapshot \in {f \in [WorktreeIds -> UNION {ListTrees(w) : w \in WorktreeIds}] :
                        \A w \in WorktreeIds : f[w] \in ListTrees(w)}
    /\ next_entry_id = 40
    /\ visible_entries =
          [k \in 1..3 |-> VisibleWorktreeEntries(<<>>, None, snapshot, k)]
    /\ expanded_dir_ids = ExpandedAfterRebuild(<<>>, <<1, 2, 3>>, snapshot)
    /\ selection = None
    /\ edit_state = None
    /\ filename_text = STR_empty
    /\ focus = "other"
    /\ blur_pending = FALSE
    /\ tasks = {}
    /\ calls = <<>>
    /\ edit_actions = 0
    /\ tree_actions = 0
    /\ clipboard_entry = None
    /\ pastes = {}
    /\ prompts = {}
    /\ deletes = {}
    /\ events = <<>>
    /\ expand_requests = <<>>
    /\ last = Last("new", "")

\* The handlers that move the selection over the projection.
ListNext ==
    \/ select_next
    \/ select_prev
    \/ \E entry_id \in DirectoryRowIds : toggle_expanded(entry_id)
    \/ \E entry_id \in FileIds : active_entry_changed(entry_id)

ListSpec == ListInit /\ [][ListNext]_vars

\* ---------------------------------------------------------------------------
\* The panel on a root where entries are copied and moved
\* ---------------------------------------------------------------------------

\* The names of the file that is copied.
SourceNames == {STR_a, <<97, DOT, 98>>, <<97, DOT, 98, DOT, 99>>, <<DOT, 97>>}

\* A root with a directory "d", a file with the given name, and the copies
\* of the file that are there already (by their counter).
PasteTree(name, existing) ==
    {Entry(1, <<>>, TRUE), Entry(2, <<STR_d>>, TRUE), Entry(3, <<name>>, FALSE)}
        \cup {Entry(4 + ix, <<CopyFileName(FileStem(name), Extension(name), ix)>>,
                    FALSE) : ix \in existing}

PasteInit ==
    /\ worktree_order = <<1>>
    /\ \E name \in SourceNames : \E existing \in SUBSET {0, 1} :
          snapshot = [w \in WorktreeIds |->
                         IF w = 1 THEN PasteTree(name, existing) ELSE {}]
    /\ next_entry_id = 6
    /\ visible_entries =
          [k \in 1..1 |-> VisibleWorktreeEntries(<<>>, None, snapshot, k)]
    /\ expanded_dir_ids = ExpandedAfterRebuild(<<>>, <<1>>, snapshot)
    /\ selection \in {None} \cup {Selection(1, id) : id \in {1, 2, 3}}
    /\ edit_state = None
    /\ filename_text = STR_empty
    /\ focus = "panel"
    /\ blur_pending = FALSE
    /\ tasks = {}
    /\ calls = <<>>
    /\ edit_actions = 0
    /\ tree_actions = 0
    /\ clipboard_entry \in {None} \cup {ClipboardEntry("copy", 1, id) : id \in {2, 3}}
    /\ pastes = {}
    /\ prompts = {}
    /\ deletes = {}
    /\ events = <<>>
    /\ expand_requests = <<>>
    /\ last = Last("new", "")

PasteNext ==
    \/ cut
    \/ copy
    \/ paste
    \/ \E p \in pastes : paste_completed(p)
    \/ \E p \in pastes : paste_failed(p)

PasteSpec == PasteInit /\ [][PasteNext]_vars

\* ---------------------------------------------------------------------------
\* The panel when paths of several segments are typed
\* ---------------------------------------------------------------------------

\* "/b/a" and "a/b"
PathTexts == {<<SLASH, 98, SLASH, 97>>, <<97, SLASH, 98>>}

PathNext ==
    \/ new_file
    \/ new_directory
    \/ \E text \in PathTexts : set_text(text)
    \/ confirm
    \/ filename_editor_blurred
    \/ \E task \in tasks : complete_ok(task)
    \/ select_next
    \/ \E entry_id \in DirectoryRowIds : toggle_expanded(entry_id)

PathSpec == Init /\ [][PathNext]_vars

\* ---------------------------------------------------------------------------
\* The panel when blank names are typed
\* ---------------------------------------------------------------------------

\* The texts typed are "", "/", "//" and "b".
BlankNext ==
    \/ new_file
    \/ new_directory
    \/ rename
    \/ \E text \in {STR_empty, <<SLASH>>, <<SLASH, SLASH>>, STR_b} :
          set_text(text)
    \/ confirm
    \/ filename_editor_blurred
    \/ \E task \in tasks : complete_ok(task)
    \/ select_next
    \/ \E entry_id \in DirectoryRowIds : toggle_expanded(entry_id)
    \/ \E w \in WorktreeIds : \E e \in snapshot[w] : project_updated(w, e.id)

BlankSpec == Init /\ [][BlankNext]_vars

\* ---------------------------------------------------------------------------
\* The panel when entries are deleted
\* ---------------------------------------------------------------------------

\* The indices of the buttons of the prompt: "Delete", "Cancel".
PromptButtons == {0, 1}

DeleteNext ==
    \/ new_file
    \/ copy
    \/ \E entry_id \in DirectoryRowIds : toggle_expanded(entry_id)
    \/ \E entry_id \in FileIds : active_entry_changed(entry_id)
    \/ delete
    \/ \E p \in prompts : \E answer \in PromptButtons : prompt_answered(p, answer)
    \/ \E p \in prompts : prompt_dismissed(p)
    \/ \E d \in deletes : delete_completed(d)
    \/ \E d \in deletes : delete_failed(d)

DeleteSpec == Init /\ [][DeleteNext]_vars

\* The panel of Init after one of the rows 2, 4 and 6 of the initial
\* projection has been clicked.
PromptInit ==
    /\ worktree_order = <<1, 2>>
    /\ snapshot = InitialSnapshot
    /\ next_entry_id = 7
    /\ visible_entries =
          [k \in 1..2 |-> VisibleWorktreeEntries(<<>>, None, InitialSnapshot, k)]
    /\ expanded_dir_ids = ExpandedAfterRebuild(<<>>, <<1, 2>>, InitialSnapshot)
    /\ selection \in {Selection(1, 2), Selection(1, 4), Selection(2, 6)}
    /\ edit_state = None
    /\ filename_text = STR_empty
    /\ focus = "panel"
    /\ blur_pending = FALSE
    /\ tasks = {}
    /\ calls = <<>>
    /\ edit_actions = 0
    /\ tree_actions = 0
    /\ clipboard_entry = None
    /\ pastes = {}
    /\ prompts = {}
    /\ deletes = {}
    /\ events = <<>>
    /\ expand_requests = <<>>
    /\ last = Last("new", "")

PromptSpec == PromptInit /\ [][DeleteNext]_vars

\* ---------------------------------------------------------------------------
\* The panel with something selected and something on the clipboard
\* ---------------------------------------------------------------------------

\* The selections the panel starts from: none, the directory "A", the file
\* "A/b", the second root and its file "b".
ClipboardSelections ==
    {None, Selection(1, 2), Selection(1, 3), Selection(2, 5), Selection(2, 6)}

\* The clipboard the panel starts from: empty, the file "A/b" cut or copied,
\* the directory "A" copied, the file "b" of the second root copied.
ClipboardContents ==
    {None, ClipboardEntry("cut", 1, 3), ClipboardEntry("copy", 1, 3),
     ClipboardEntry("copy", 1, 2), ClipboardEntry("copy", 2, 6)}

\* The panel after the selection has been moved and an entry cut or copied.
ClipboardInit ==
    /\ worktree_order = <<1, 2>>
    /\ snapshot = InitialSnapshot
    /\ next_entry_id = 7
    /\ visible_entries =
          [k \in 1..2 |-> VisibleWorktreeEntries(<<>>, None, InitialSnapshot, k)]
    /\ expanded_dir_ids = ExpandedAfterRebuild(<<>>, <<1, 2>>, InitialSnapshot)
    /\ selection \in ClipboardSelections
    /\ edit_state = None
    /\ filename_text = STR_empty
    /\ focus = "panel"
    /\ blur_pending = FALSE
    /\ tasks = {}
    /\ calls = <<>>
    /\ edit_actions = 0
    /\ tree_actions = 0
    /\ clipboard_entry \in ClipboardContents
    /\ pastes = {}
    /\ prompts = {}
    /\ deletes = {}
    /\ events = <<>>
    /\ expand_requests = <<>>
    /\ last = Last("new", "")

ClipboardNext ==
    \/ cut
    \/ copy
    \/ paste
    \/ \E p \in pastes : paste_completed(p)
    \/ \E p \in pastes : paste_failed(p)
    \/ delete
    \/ \E p \in prompts : \E answer \in PromptButtons : prompt_answered(p, answer)
    \/ \E d \in deletes : delete_completed(d)
    \/ rename
    \/ cancel
    \/ filename_editor_blurred
    \/ \E w \in WorktreeIds : \E e \in snapshot[w] : project_updated(w, e.id)
    \/ \E w \in RemovableWorktrees : worktree_removed(w)

ClipboardSpec == ClipboardInit /\ [][ClipboardNext]_vars

\* ---------------------------------------------------------------------------
\* The panel when a search in a directory is asked for
\* ---------------------------------------------------------------------------

SearchNext ==
    \/ select_next
    \/ \E entry_id \in DirectoryRowIds : toggle_expanded(entry_id)
    \/ \E entry_id \in FileIds : active_entry_changed(entry_id)
    \/ \E w \in WorktreeIds : \E e \in snapshot[w] : project_updated(w, e.id)
    \/ \E w \in RemovableWorktrees : worktree_removed(w)
    \/ new_search_in_directory
    \/ activate_project_panel

SearchSpec == Init /\ [][SearchNext]_vars

\* ---------------------------------------------------------------------------
\* The panel with a selection that may have left the projection
\* ---------------------------------------------------------------------------

\* The panel of ListInit after an entry has been selected and the file systems
\* have changed.  The selection is none, or an entry that was selected in one
\* of the roots; the entry may have been deleted by another program since.
NavInit ==
    /\ worktree_order = <<1, 2, 3>>
    /\ snapshot \in {f \in [WorktreeIds -> UNION {ListTrees(w) : w \in WorktreeIds}] :
                        \A w \in WorktreeIds : f[w] \in ListTrees(w)}
    /\ next_entry_id = 40
    /\ visible_entries =
          [k \in 1..3 |-> VisibleWorktreeEntries(<<>>, None, snapshot, k)]
    /\ expanded_dir_ids = ExpandedAfterRebuild(<<>>, <<1, 2, 3>>, snapshot)
    /\ selection \in {None} \cup {Selection(w, 10 * w + k) :
                                      w \in WorktreeIds, k \in 0..2}
    /\ edit_state = None
    /\ filename_text = STR_empty
    /\ focus = "panel"
    /\ blur_pending = FALSE
    /\ tasks = {}
    /\ calls = <<>>
    /\ edit_actions = 0
    /\ tree_actions = 0
    /\ clipboard_entry = None
    /\ pastes = {}
    /\ prompts = {}
    /\ deletes = {}
    /\ events = <<>>
    /\ expand_requests = <<>>
    /\ last = Last("new", "")

NavNext ==
    \/ select_next
    \/ select_prev
    \/ \E entry_id \in DirectoryRowIds : toggle_expanded(entry_id)

NavSpec == NavInit /\ [][NavNext]_vars

\* ---------------------------------------------------------------------------
\* Vocabulary of the properties
\* ---------------------------------------------------------------------------

Range(v) == {v[k] : k \in 1..Len(v)}

\* Session states of section 4.3
Idle == edit_state = None
Editing == edit_state # None /\ edit_state.processing_filename = None
Submitting == edit_state # None /\ edit_state.processing_filename # None

\* Number of synthetic entries of a projection, counted over all roots.
RECURSIVE SyntheticCountFrom(_, _)
SyntheticCountFrom(visible, k) ==
    IF k > Len(visible) THEN 0
    ELSE Cardinality({i \in 1..Len(visible[k].entries) :
                        visible[k].entries[i].id = NEW_ENTRY_ID})
         + SyntheticCountFrom(visible, k + 1)

SyntheticCount == SyntheticCountFrom(visible_entries, 1)

\* A step of the named handler (not a stuttering step).
EditStep(op) == last'.op = op /\ edit_actions' = edit_actions + 1

\* ---------------------------------------------------------------------------
\* C1
\* ---------------------------------------------------------------------------

\* C1: in every reachable state, whatever sequence of new_file, new_directory,
\* rename, cancel, confirm, blur, snapshot changes and completions led to it,
\* the projection holds at most one entry with the id NEW_ENTRY_ID, counted
\* over all roots.
C1_SinglePlaceholder == SyntheticCount <= 1

\* A new-entry session started while an earlier submission is in flight, and
\* its placeholder is in the projection.
C1_Witness ==
    /\ SyntheticCount = 1
    /\ last.op \in {"new_file", "new_directory"}
    /\ tasks # {}

\* ---------------------------------------------------------------------------
\* C2
\* ---------------------------------------------------------------------------

\* The destination of a submission as the contract words it: the anchor path
\* joined with the typed text (new entry), the parent of the anchor joined
\* with the typed text (rename).
DestinationPath ==
    IF edit_state.is_new_entry
    THEN ConfirmEntry.path \o Components(filename_text)
    ELSE Parent(ConfirmEntry.path) \o Components(filename_text)

DestinationExists ==
    /\ ConfirmResolves
    /\ HasEntryForPath(snapshot[edit_state.worktree_id], DestinationPath)

\* C2: a confirm_edit whose destination path already exists in the session's
\* root returns None, issues no create_entry or rename_entry call, spawns no
\* task, and leaves the pending name of the session unset.
C2_ConflictRejected ==
    [][(EditStep("confirm") /\ DestinationExists)
          => /\ last'.result = "rejected"
             /\ calls' = calls
             /\ tasks' = tasks
             /\ edit_state' # None
             /\ edit_state'.processing_filename = None]_vars

\* A rename to the name of a sibling has been rejected.
C2_Witness ==
    /\ last.op = "confirm"
    /\ last.result = "rejected"
    /\ edit_state # None
    /\ ~edit_state.is_new_entry
    /\ ConfirmResolves
    /\ filename_text # FileName(ConfirmEntry.path)
    /\ calls = <<>>

\* ---------------------------------------------------------------------------
\* C3
\* ---------------------------------------------------------------------------

\* confirm_edit has rejected a submission and every event it triggered has
\* been processed.
RejectedAndSettled ==
    \/ last.op = "confirm" /\ last.result = "rejected" /\ ~blur_pending
    \/ last.op = "blurred" /\ last.cause = "confirm" /\ last.result = "rejected"

RejectedStep == EditStep("confirm") /\ last'.result = "rejected"

AddStep == EditStep("new_file") \/ EditStep("new_directory")
RenameStep == EditStep("rename")

\* C5 as stated: while the session is Submitting, new_file, new_directory and
\* rename leave the session unchanged.
C5_Original ==
    [][((AddStep \/ RenameStep) /\ Submitting) => edit_state' = edit_state]_vars

\* C5, amended: while the session is Submitting, new_file, new_directory and
\* rename replace it by a fresh Editing session (pending name unset) on the
\* selected entry whenever the selection resolves, without touching the
\* operation in flight; the session is left unchanged only when the selection
\* does not resolve.
C5_ReplacesWhileSubmitting ==
    [][((AddStep \/ RenameStep) /\ Submitting)
          => /\ calls' = calls
             /\ tasks' = tasks
             /\ (AddStep /\ AddEntryResolves)
                   => /\ edit_state' # None
                      /\ edit_state'.is_new_entry
                      /\ edit_state'.worktree_id = selection.worktree_id
                      /\ edit_state'.processing_filename = None
             /\ (RenameStep /\ HasSelectedEntry)
                   => /\ edit_state' # None
                      /\ ~edit_state'.is_new_entry
                      /\ edit_state'.worktree_id = selection.worktree_id
                      /\ edit_state'.entry_id = selection.entry_id
                      /\ edit_state'.processing_filename = None
             /\ (AddStep /\ ~AddEntryResolves) => edit_state' = edit_state
             /\ (RenameStep /\ ~HasSelectedEntry) => edit_state' = edit_state]_vars

\* A rename has started a fresh session while a submission is in flight.
C5_Witness ==
    /\ last.op = "rename"
    /\ Editing
    /\ ~edit_state.is_new_entry
    /\ tasks # {}
    /\ \E task \in tasks : task.seq = Len(calls)

\* ---------------------------------------------------------------------------
\* C6
\* ---------------------------------------------------------------------------

\* C6 as stated: a confirm invoked while the session is Submitting issues no
\* further create_entry / rename_entry call.
C6_NoResubmission ==
    [][(EditStep("confirm") /\ Submitting) => calls' = calls]_vars

\* ---------------------------------------------------------------------------
\* C7
\* ---------------------------------------------------------------------------

\* C7: right after the completion callback of a submitted edit (entry
\* produced, no entry, or error) the session is None; and, every operation in
\* flight being completed sooner or later, every Submitting state is followed
\* by an Idle state.
C7_CompletionClearsSession ==
    /\ [](last.op = "complete" => Idle)
    /\ (Submitting ~> Idle)

\* The operation of a submitted edit has failed and its callback has run.
C7_Witness ==
    /\ last.op = "complete"
    /\ last.result = "err"
    /\ Idle
    /\ calls # <<>>

\* ---------------------------------------------------------------------------
\* C8
\* ---------------------------------------------------------------------------

\* C8 as stated: in every state in which no handler has an effect waiting,
\* when the session is None or a rename session the projection holds no
\* synthetic entry.
C8_PlaceholderClearedWithSession ==
    (~blur_pending /\ (edit_state = None \/ ~edit_state.is_new_entry))
        => SyntheticCount = 0

\* ---------------------------------------------------------------------------
\* C9
\* ---------------------------------------------------------------------------

\* The entries of the k-th list of the projection.
ShownEntries(k) == Range(visible_entries[k].entries)

\* The expansion set of worktree w.
ExpansionSet(w) ==
    IF w \in DOMAIN expanded_dir_ids THEN Range(expanded_dir_ids[w]) ELSE {}

\* Every proper ancestor directory of path is in the expansion set of w.
AncestorsExpanded(w, path) ==
    \A j \in 0..(Len(path) - 1) :
        \E d \in snapshot[w] :
            d.path = SubSeq(path, 1, j) /\ d.id \in ExpansionSet(w)

\* C9: for each root of the projection, a real entry other than the root
\* entry is in the root's list if and only if every proper ancestor directory
\* of it is in the root's expansion set; the real entries of the list are
\* entries of the snapshot.
C9_VisibleIffAncestorsExpanded ==
    \A k \in 1..Len(visible_entries) :
        LET w == visible_entries[k].worktree_id
        IN  /\ \A e \in ShownEntries(k) :
                  e.id # NEW_ENTRY_ID => e \in snapshot[w]
            /\ \A e \in snapshot[w] :
                  e.path # <<>> =>
                     ((e \in ShownEntries(k)) <=> AncestorsExpanded(w, e.path))

\* A directory has been expanded and collapsed again: it is in the list, its
\* child is not.
C9_Witness ==
    /\ last.op = "toggle_expanded"
    /\ tree_actions = 2
    /\ Len(visible_entries) > 0
    /\ visible_entries[1].worktree_id = 1
    /\ \E d \in ShownEntries(1) : \E e \in snapshot[1] :
          /\ d.is_dir
          /\ d.path # <<>>
          /\ d.id \notin ExpansionSet(1)
          /\ e.path = Append(d.path, STR_b)
          /\ e \notin ShownEntries(1)

\* ---------------------------------------------------------------------------
\* C10
\* ---------------------------------------------------------------------------

\* Two entries with the same parent directory.
Siblings(a, b) ==
    /\ Len(a.path) = Len(b.path)
    /\ Len(a.path) > 0
    /\ Parent(a.path) = Parent(b.path)

\* a may precede its sibling b: a directory precedes a file, and two
\* siblings of one class are in case-insensitive order of their names.
SiblingOrder(a, b) ==
    IF a.is_dir # b.is_dir THEN a.is_dir
    ELSE UniCaseCmp(FileName(a.path), FileName(b.path)) <= 0

\* The real entries of list are in depth-first pre-order: an entry comes
\* after its ancestors, and the descendants of an entry follow it directly.
PreOrder(list) ==
    \A i \in 1..Len(list) : \A j \in (i + 1)..Len(list) :
        /\ ~(IsPrefix(list[j].path, list[i].path) /\ list[j].path # list[i].path)
        /\ IsPrefix(list[i].path, list[j].path)
              => \A m \in i..j : IsPrefix(list[i].path, list[m].path)

\* The real entries of a list, in the order of the list.
RECURSIVE RealEntries(_)
RealEntries(list) ==
    IF list = <<>> THEN <<>>
    ELSE IF Head(list).id = NEW_ENTRY_ID THEN RealEntries(Tail(list))
    ELSE <<Head(list)>> \o RealEntries(Tail(list))

\* C10 as stated: in each list of the projection any two siblings are in
\* sibling order (directories first, then case-insensitive names), and the
\* list is a depth-first pre-order of the visible tree.
C10_SortedPreOrder ==
    \A k \in 1..Len(visible_entries) :
        LET list == RealEntries(visible_entries[k].entries)
        IN  /\ \A i \in 1..Len(list) : \A j \in (i + 1)..Len(list) :
                  Siblings(list[i], list[j]) => SiblingOrder(list[i], list[j])
            /\ PreOrder(list)

\* ---------------------------------------------------------------------------
\* C11
\* ---------------------------------------------------------------------------

\* The concatenation of the lists of a projection: the row at flat index f
\* (0-based) is FlatRows(visible)[f + 1].
RECURSIVE FlatRowsFrom(_, _)
FlatRowsFrom(visible, k) ==
    IF k > Len(visible) THEN <<>>
    ELSE [i \in 1..Len(visible[k].entries) |->
             Selection(visible[k].worktree_id, visible[k].entries[i].id)]
         \o FlatRowsFrom(visible, k + 1)

FlatRows(visible) == FlatRowsFrom(visible, 1)

\* The ids an entry of the project or of the projection can have.
KnownIds ==
    {NEW_ENTRY_ID}
        \cup {e.id : e \in UNION {snapshot[w] : w \in WorktreeIds}}
        \cup {FlatRows(visible_entries)[f].entry_id :
                 f \in 1..Len(FlatRows(visible_entries))}

\* C11: for every row (root r, id e) at flat index f of the projection,
\* index_for_selection({r, e}) returns (root_index, entry_index, f) where
\* visible_entries[root_index] is the list of r and holds e at entry_index;
\* and index_for_selection returns None exactly for the pairs (r, e) that are
\* not rows of the projection.
C11_IndexRoundTrip ==
    LET flat == FlatRows(visible_entries)
    IN  /\ \A f \in 1..Len(flat) :
              LET r == index_for_selection(visible_entries, flat[f])
              IN  /\ r # None
                  /\ r.flat_ix = f - 1
                  /\ visible_entries[r.worktree_ix + 1].worktree_id
                        = flat[f].worktree_id
                  /\ visible_entries[r.worktree_ix + 1].entries[r.entry_ix + 1].id
                        = flat[f].entry_id
        /\ \A w \in WorktreeIds : \A id \in KnownIds :
              (index_for_selection(visible_entries, Selection(w, id)) = None)
                 <=> (\A f \in 1..Len(flat) : flat[f] # Selection(w, id))

\* The selection is a row of the last root, behind a root without entries and
\* a root with entries: its flat index differs from its entry index.
C11_Witness ==
    /\ selection # None
    /\ Len(visible_entries) = 3
    /\ visible_entries[1].entries # <<>>
    /\ visible_entries[2].entries = <<>>
    /\ selection.worktree_id = visible_entries[3].worktree_id
    /\ index_for_selection(visible_entries, selection) # None
    /\ index_for_selection(visible_entries, selection).entry_ix = 1
    /\ index_for_selection(visible_entries, selection).flat_ix > 1

\* ---------------------------------------------------------------------------
\* C12
\* ---------------------------------------------------------------------------

\* The ids of the rows at the flat indices range_start .. range_end - 1 that
\* exist, in increasing order of the index.
WindowIds(visible, range_start, range_end) ==
    LET flat == FlatRows(visible)
        stop == IF range_end < Len(flat) THEN range_end ELSE Len(flat)
    IN  [i \in 1..(stop - range_start) |-> flat[range_start + i].entry_id]

\* The walk over range_start..range_end ends without a panic, after one
\* callback per row of the window, in order.
WalksWindow(range_start, range_end) ==
    LET r == for_each_visible_entry(visible_entries, range_start, range_end)
    IN  /\ ~r.panic
        /\ r.ids = WindowIds(visible_entries, range_start, range_end)

RootsPresent ==
    \A k \in 1..Len(visible_entries) : HasWorktree(visible_entries[k].worktree_id)

NavStep(op) == last'.op = op /\ tree_actions' = tree_actions + 1

\* C13: with the selection at flat index i of a projection of n rows,
\* select_next selects the row at flat index i + 1 when i + 1 < n and changes
\* nothing when i = n - 1; select_prev selects the row at flat index i - 1
\* when i > 0 and changes nothing when i = 0, without a panic; for every
\* arrangement of roots, roots without entries included.
C13_StepsAlongFlatIndex ==
    [][(selection # None /\ index_for_selection(visible_entries, selection) # None)
          => LET flat == FlatRows(visible_entries)
                 i == index_for_selection(visible_entries, selection).flat_ix
             IN  /\ NavStep("select_next")
                       => selection' = IF i + 1 < Len(flat) THEN flat[i + 2]
                                       ELSE selection
                 /\ NavStep("select_prev")
                       => /\ last'.result # "panic"
                          /\ selection' = IF i > 0 THEN flat[i] ELSE selection]_vars

\* ---------------------------------------------------------------------------
\* C14
\* ---------------------------------------------------------------------------

\* The positions of the '.' that starts the final extension of a name: the
\* last '.', unless it is the first character.
FinalDot(name) ==
    {i \in 2..Len(name) :
        name[i] = DOT /\ \A j \in (i + 1)..Len(name) : name[j] # DOT}

StemOf(name) ==
    IF FinalDot(name) = {} THEN name
    ELSE SubSeq(name, 1, (CHOOSE i \in FinalDot(name) : TRUE) - 1)

\* The final extension with its '.', empty when there is none.
DotExtOf(name) ==
    IF FinalDot(name) = {} THEN <<>>
    ELSE SubSeq(name, CHOOSE i \in FinalDot(name) : TRUE, Len(name))

\* k < 100 in decimal digits.
Numeral(k) ==
    IF k < 10 THEN <<DIGIT_0 + k>> ELSE <<DIGIT_0 + (k \div 10), DIGIT_0 + (k % 10)>>

\* The candidates in the order they are tried: name, "stem copy.ext",
\* "stem copy 1.ext", "stem copy 2.ext", ..
Candidate(name, j) ==
    IF j = 0 THEN name
    ELSE IF j = 1 THEN StemOf(name) \o STR_copy \o DotExtOf(name)
    ELSE StemOf(name) \o STR_copy \o <<SPACE>> \o Numeral(j - 1) \o DotExtOf(name)

\* C14: a paste of a source named stem.ext into the directory D ends and
\* issues its operation for the first of D/stem.ext, D/"stem copy.ext",
\* D/"stem copy 1.ext", D/"stem copy 2.ext", .. that has no entry in the root
\* at the moment of the paste; ext is the final extension only and stem is
\* taken from the source name.
C14_PasteNaming ==
    [][(NavStep("paste") /\ PasteResolves)
          => LET snap == snapshot[selection.worktree_id]
                 name == ClipboardFileName
                 Absent(j) == ~HasEntryForPath(snap,
                                 Append(PasteDirectory, Candidate(name, j)))
                 least == CHOOSE j \in 0..Cardinality(snap) :
                             Absent(j) /\ \A i \in 0..(j - 1) : ~Absent(i)
             IN  /\ last'.result = "issued"
                 /\ Len(calls') = Len(calls) + 1
                 /\ calls'[Len(calls')].entry_id = clipboard_entry.entry_id
                 /\ calls'[Len(calls')].path
                       = Append(PasteDirectory, Candidate(name, least))
                 /\ ~HasEntryForPath(snap, calls'[Len(calls')].path)]_vars

\* A paste of "a.b.c" next to itself and to "a.b copy.c" has chosen
\* "a.b copy 1.c".
C14_Witness ==
    /\ last.op = "paste"
    /\ last.result = "issued"
    /\ calls[Len(calls)].path
          = <<(<<97, DOT, 98>> \o STR_copy \o <<SPACE, DIGIT_0 + 1, DOT, 99>>)>>
    /\ HasEntryForPath(snapshot[1], <<(<<97, DOT, 98, DOT, 99>>)>>)
    /\ HasEntryForPath(snapshot[1], <<(<<97, DOT, 98>> \o STR_copy \o <<DOT, 99>>)>>)

\* ---------------------------------------------------------------------------
\* C15
\* ---------------------------------------------------------------------------

\* The positions in calls of the copy_entry operations issued for the source
\* id into the directory dir.
CopiesOf(id, dir) ==
    {k \in 1..Len(calls) :
        /\ calls[k].fn = "copy_entry"
        /\ calls[k].entry_id = id
        /\ Parent(calls[k].path) = dir}

\* C15: the pastes of one copied source into one directory have pairwise
\* distinct destination paths, in every interleaving of the pastes with the
\* completions of the copy operations they issue.
C15_DistinctDestinations ==
    \A j, k \in 1..Len(calls) :
        (/\ j # k
         /\ calls[j].fn = "copy_entry"
         /\ k \in CopiesOf(calls[j].entry_id, Parent(calls[j].path)))
            => calls[j].path # calls[k].path

\* ---------------------------------------------------------------------------
\* C16
\* ---------------------------------------------------------------------------

\* The expansion set of worktree w in the table exp.
SetOf(exp, w) == IF w \in DOMAIN exp THEN Range(exp[w]) ELSE {}

\* The table and the selection a handler leaves behind, update_visible_entries
\* included when the handler calls it.
Left(r) ==
    [exp |-> IF r.rebuilt
             THEN ExpandedAfterRebuild(r.exp, worktree_order, snapshot)
             ELSE r.exp,
     sel |-> r.sel]

\* The ids of the directories of worktree w.
DirectoryIds(w) == {e.id : e \in {x \in snapshot[w] : x.is_dir}}

\* What the three ways of expanding directory X of worktree w leave behind
\* in the current state; a way that does not apply to X in this state
\* contributes nothing.
ExpandedBySelected(w, X) ==
    IF selection = Selection(w, X)
    THEN {Left(ExpandSelectedEntry(expanded_dir_ids, selection))}
    ELSE {}

ExpandedByToggle(w, X) ==
    IF X \in DirectoryRowIds /\ X \notin SetOf(expanded_dir_ids, w)
    THEN {Left(ToggleExpanded(expanded_dir_ids, selection, X))}
    ELSE {}

ExpandedByExpandEntry(w, X) ==
    {Left([exp |-> expand_entry(expanded_dir_ids, w, X),
           sel |-> Selection(w, X), rebuilt |-> TRUE])}

\* What the two ways of collapsing X leave behind after an expand left e.
CollapsedAfter(e, X) ==
    {Left(CollapseSelectedEntry(e.exp, e.sel)),
     Left(ToggleExpanded(e.exp, e.sel, X))}

\* Expanding X in one of the given ways and collapsing it right after leaves
\* the expansion set of w as it is now.
RestoredAfter(expanded, w, X) ==
    \A e \in expanded : \A c \in CollapsedAfter(e, X) :
        SetOf(c.exp, w) = SetOf(expanded_dir_ids, w)

\* C16 as stated: for any directory X, expanded or not, expanding X
\* (expand_selected_entry with X selected, toggle_expanded on a collapsed X,
\* expand_entry for X) and collapsing X right after (collapse_selected_entry
\* or toggle_expanded) leaves the expansion set of the root as it was.
C16_Original ==
    \A w \in WorktreeIds : \A X \in DirectoryIds(w) :
        HasWorktree(w)
            => RestoredAfter(ExpandedBySelected(w, X) \cup ExpandedByToggle(w, X)
                                \cup ExpandedByExpandEntry(w, X), w, X)

\* C16: for a directory X that is not in the expansion set of its root,
\* expanding X by expand_selected_entry with X selected or by toggle_expanded,
\* or by expand_entry when every ancestor directory of X is in the expansion
\* set already, and collapsing X right after leaves the expansion set of the
\* root as it was.
C16_ExpandThenCollapse ==
    \A w \in WorktreeIds : \A X \in DirectoryIds(w) :
        (HasWorktree(w) /\ X \notin SetOf(expanded_dir_ids, w))
            => /\ RestoredAfter(ExpandedBySelected(w, X) \cup ExpandedByToggle(w, X),
                                w, X)
               /\ AncestorsExpanded(w, entry_for_id(snapshot[w], X).path)
                     => RestoredAfter(ExpandedByExpandEntry(w, X), w, X)

\* The selected directory is collapsed and its row is shown: each of the
\* three ways of expanding it applies and puts it into the expansion set.
C16_Witness ==
    \E w \in WorktreeIds : \E X \in DirectoryIds(w) :
        /\ HasWorktree(w)
        /\ last.op = "collapse_selected_entry"
        /\ selection = Selection(w, X)
        /\ X \notin SetOf(expanded_dir_ids, w)
        /\ AncestorsExpanded(w, entry_for_id(snapshot[w], X).path)
        /\ \A e \in ExpandedBySelected(w, X) \cup ExpandedByToggle(w, X)
                       \cup ExpandedByExpandEntry(w, X) :
              /\ X \in SetOf(e.exp, w)
              /\ \A c \in CollapsedAfter(e, X) : X \notin SetOf(c.exp, w)
        /\ ExpandedBySelected(w, X) # {}
        /\ ExpandedByToggle(w, X) # {}

\* ---------------------------------------------------------------------------
\* C17
\* ---------------------------------------------------------------------------

\* C17: in every reachable state the expansion list of each root is strictly
\* increasing in entry id (sorted, without duplicates), whatever handlers,
\* completions, removals and rebuilds have run.
C17_StrictlyIncreasing ==
    \A w \in DOMAIN expanded_dir_ids :
        \A i \in 1..(Len(expanded_dir_ids[w]) - 1) :
            expanded_dir_ids[w][i] < expanded_dir_ids[w][i + 1]

\* A toggle has inserted a directory between two ids of the list.
C17_Witness ==
    /\ last.op = "toggle_expanded"
    /\ selection # None
    /\ selection.worktree_id \in DOMAIN expanded_dir_ids
    /\ LET v == expanded_dir_ids[selection.worktree_id]
       IN  \E i \in 2..(Len(v) - 1) : v[i] = selection.entry_id

\* ---------------------------------------------------------------------------
\* C18
\* ---------------------------------------------------------------------------

\* C18: in every reachable state every id in the expansion list of a root is
\* the id of a directory entry of that root; no handler, the one of
\* ActiveEntryChanged included, inserts the id of a file.
C18_OnlyDirectories ==
    \A w \in DOMAIN expanded_dir_ids :
        \A i \in 1..Len(expanded_dir_ids[w]) :
            \E e \in snapshot[w] : e.id = expanded_dir_ids[w][i] /\ e.is_dir

\* ---------------------------------------------------------------------------
\* C19
\* ---------------------------------------------------------------------------

\* The step is the successful completion of the submitted edit of task.
CompletedOk(task) ==
    /\ last'.op = "complete"
    /\ last'.result = "ok"
    /\ task \in tasks
    /\ task \notin tasks'

\* C19: when the operation of a submitted edit completes successfully, a
\* selection that holds the id of the edited entry (the placeholder id for a
\* new entry, the id of the renamed entry for a rename) becomes the resulting
\* entry in the root of the session; a selection that was moved to an entry
\* with another id while the edit was Submitting is left unchanged.
C19_CompletionRetargets ==
    [][\A task \in tasks :
          CompletedOk(task)
             => LET w == task.worktree_id
                    new_entry == entry_for_path(snapshot'[w], task.call.path)
                IN  IF selection # None
                       /\ selection.entry_id = task.edited_entry_id
                    THEN selection' = Selection(w, new_entry.id)
                    ELSE selection' = selection]_vars

\* A completion has left alone a selection that was moved to another entry
\* while the edit was Submitting.
C19_Witness ==
    /\ last.op = "complete"
    /\ last.result = "ok"
    /\ Len(calls) = 1
    /\ tree_actions > 0
    /\ selection # None
    /\ HasEntryForPath(snapshot[calls[1].worktree_id], calls[1].path)
    /\ selection.entry_id
          # entry_for_path(snapshot[calls[1].worktree_id], calls[1].path).id

\* ---------------------------------------------------------------------------
\* C20
\* ---------------------------------------------------------------------------

\* The entry with the given id is a row of the projection of worktree w.
IsRow(visible, w, id) ==
    \E k \in 1..Len(visible) :
        /\ visible[k].worktree_id = w
        /\ \E i \in 1..Len(visible[k].entries) : visible[k].entries[i].id = id

\* C20: when a new-entry submission completes successfully with the
\* selection still on the placeholder, the typed text being a path of one or
\* several segments below the directory of the session: the created entry is
\* the selection, every ancestor directory of the created entry, the newly
\* created intermediate directories included, is in the expansion set of the
\* root, and the created entry is a row of the rebuilt projection.
C20_CreatedPathRevealed ==
    [][\A task \in tasks :
          (/\ CompletedOk(task)
           /\ task.is_new_entry
           /\ selection # None
           /\ selection.entry_id = NEW_ENTRY_ID)
             => LET w == task.worktree_id
                    path == task.call.path
                    new_entry == entry_for_path(snapshot'[w], path)
                IN  /\ selection' = Selection(w, new_entry.id)
                    /\ \A j \in 0..(Len(path) - 1) :
                          \E d \in snapshot'[w] :
                             /\ d.path = SubSeq(path, 1, j)
                             /\ d.is_dir
                             /\ d.id \in SetOf(expanded_dir_ids', w)
                    /\ IsRow(visible_entries', w, new_entry.id)]_vars

\* The file b/a has been created from the text "/b/a" together with the
\* directory b, and is the selected row below the expanded b.
C20_Witness ==
    /\ last.op = "complete"
    /\ last.result = "ok"
    /\ selection # None
    /\ HasWorktree(selection.worktree_id)
    /\ HasEntryForId(snapshot[selection.worktree_id], selection.entry_id)
    /\ LET w == selection.worktree_id
           entry == entry_for_id(snapshot[w], selection.entry_id)
       IN  /\ entry.path = <<STR_b, STR_a>>
           /\ entry.id >= 7
           /\ entry_for_path(snapshot[w], <<STR_b>>).id >= 7
           /\ entry_for_path(snapshot[w], <<STR_b>>).id \in SetOf(expanded_dir_ids, w)
           /\ IsRow(visible_entries, w, entry.id)

\* ---------------------------------------------------------------------------
\* C21
\* ---------------------------------------------------------------------------

\* The step is a run of the Blurred subscription of the filename editor.
BlurredStep == blur_pending /\ ~blur_pending' /\ last'.op = "blurred"

\* C21: when the filename editor loses the focus, a session that is Editing
\* is cleared and the projection is rebuilt without its placeholder; a
\* session that is Submitting is left as it is, and so is the projection.
C21_BlurCancelsOnlyEditing ==
    [][BlurredStep
          => /\ Editing => /\ edit_state' = None
                           /\ SyntheticCount' = 0
                           /\ \A k \in 1..Len(visible_entries') :
                                 \A i \in 1..Len(visible_entries'[k].entries) :
                                    visible_entries'[k].entries[i] \in
                                       snapshot[visible_entries'[k].worktree_id]
             /\ Submitting => UNCHANGED <<edit_state, visible_entries>>]_vars

\* The filename editor has lost the focus to the panel during a submission,
\* and the session is still Submitting.
C21_Witness ==
    /\ last.op = "blurred"
    /\ last.cause = "confirm"
    /\ last.result = "submitted"
    /\ Submitting
    /\ SyntheticCount = 1

\* ---------------------------------------------------------------------------
\* C22
\* ---------------------------------------------------------------------------

\* The step issues a delete_entry call.
IssuesDelete ==
    /\ Len(calls') = Len(calls) + 1
    /\ calls'[Len(calls')].fn = "delete_entry"

\* The step closes the prompt p.
Closes(p) == p \in prompts /\ p \notin prompts'

\* C22: delete_entry is issued only by the step in which a prompt opened by
\* delete for that entry is answered with button 0; when a prompt is answered
\* with another button or dismissed, no call is issued and the selection, the
\* expansion table, the edit session, the clipboard and the projection stay
\* as they are.
C22_DeleteOnlyAfterYes ==
    [][/\ IssuesDelete
             => \E p \in prompts :
                   /\ Closes(p)
                   /\ last'.op = "prompt_answered"
                   /\ last'.cause = "Delete"
                   /\ p.entry_id = calls'[Len(calls')].entry_id
       /\ (\E p \in prompts : Closes(p)) /\ last'.cause # "Delete"
             => UNCHANGED <<calls, deletes, selection, expanded_dir_ids,
                            edit_state, clipboard_entry, visible_entries,
                            snapshot>>
       /\ last'.op = "delete"
             => UNCHANGED <<calls, deletes, selection, expanded_dir_ids,
                            edit_state, clipboard_entry, visible_entries,
                            snapshot>>]_vars

\* A prompt has been answered with "Cancel" while a session and a clipboard
\* entry exist.
C22_Witness ==
    /\ last.op = "prompt_answered"
    /\ last.cause = "Cancel"
    /\ edit_state # None
    /\ clipboard_entry # None
    /\ prompts = {}

\* ---------------------------------------------------------------------------
\* C23
\* ---------------------------------------------------------------------------

\* The real entries among the rows of worktree w in a projection.
RealRows(visible, w) ==
    UNION {{e \in Range(visible[k].entries) : e.id # NEW_ENTRY_ID} :
              k \in {j \in 1..Len(visible) : visible[j].worktree_id = w}}

\* C23: after collapse_all_entries, for every root of the project whose root
\* entry is available the expansion set is {root entry id}, the rows of the
\* root are its root entry and the direct children of it, and expanding a
\* directory among them afterwards leaves every directory below it
\* collapsed, whatever was expanded before.
C23_CollapseAllKeepsRoots ==
    [][NavStep("collapse_all_entries")
          => \A w \in WorktreeIds :
                (HasWorktree(w) /\ HasRootEntry(snapshot[w]))
                   => /\ SetOf(expanded_dir_ids', w) = {root_entry(snapshot[w]).id}
                      /\ RealRows(visible_entries', w)
                            = {e \in snapshot[w] : Len(e.path) <= 1}
                      /\ \A X \in DirectoryIds(w) :
                            Len(entry_for_id(snapshot[w], X).path) = 1
                               => SetOf(Left(ToggleExpanded(expanded_dir_ids',
                                                            selection', X)).exp, w)
                                     = {root_entry(snapshot[w]).id, X}]_vars

\* Everything has been collapsed in a root that holds a directory inside a
\* directory.
C23_Witness ==
    /\ last.op = "collapse_all_entries"
    /\ \E w \in WorktreeIds :
          /\ HasWorktree(w)
          /\ HasRootEntry(snapshot[w])
          /\ expanded_dir_ids[w] = <<root_entry(snapshot[w]).id>>
          /\ \E e \in snapshot[w] : e.is_dir /\ Len(e.path) = 2

\* ---------------------------------------------------------------------------
\* C24
\* ---------------------------------------------------------------------------

\* A step of cut or of copy.
ClipboardStep ==
    /\ last'.op \in {"cut", "copy"}
    /\ tree_actions' = tree_actions + 1

\* C24: a cut or a copy with a selection that resolves to an entry sets the
\* clipboard to the root and the id of the selection in the mode of the
\* handler, whatever was there; a cut or a copy without such a selection and
\* every step of every other operation leave the clipboard as it was.
C24_ClipboardFrame ==
    [][IF ClipboardStep /\ HasSelectedEntry
       THEN /\ clipboard_entry'.kind = last'.op
            /\ clipboard_entry'.worktree_id = selection.worktree_id
            /\ clipboard_entry'.entry_id = selection.entry_id
       ELSE clipboard_entry' = clipboard_entry]_vars

\* A paste has issued its operation and the clipboard still holds the entry.
C24_Witness ==
    /\ last = Last("paste", "issued")
    /\ clipboard_entry # None
    /\ calls # <<>>
    /\ calls[Len(calls)].entry_id = clipboard_entry.entry_id

\* ---------------------------------------------------------------------------
\* C25
\* ---------------------------------------------------------------------------

\* A step of paste.
PasteStep ==
    /\ last'.op = "paste"
    /\ tree_actions' = tree_actions + 1

\* C25: a paste with an empty clipboard, with a selection that does not
\* resolve to an entry, or with a clipboard entry of another root than the
\* selected entry issues no call to the project and leaves the state of the
\* panel and of the project as it was.
C25_PasteReturnsEarly ==
    [][(/\ PasteStep
        /\ \/ clipboard_entry = None
           \/ ~HasSelectedEntry
           \/ clipboard_entry.worktree_id # selection.worktree_id)
          => /\ calls' = calls
             /\ UNCHANGED <<project_vars, visible_entries, expanded_dir_ids,
                            selection, edit_state, filename_text, focus,
                            blur_pending, tasks, clipboard_vars, delete_vars,
                            events,
                   expand_requests>>]_vars

\* A paste has returned with an entry on the clipboard that is still in the
\* project and an entry of another root selected.
C25_Witness ==
    /\ last = Last("paste", "none")
    /\ HasSelectedEntry
    /\ clipboard_entry # None
    /\ HasWorktreeForEntry(clipboard_entry.entry_id)
    /\ clipboard_entry.worktree_id # selection.worktree_id

\* ---------------------------------------------------------------------------
\* C26
\* ---------------------------------------------------------------------------

\* The new-search-in-directory events among the emitted events.
RECURSIVE SearchEvents(_)
SearchEvents(ev) ==
    IF ev = <<>> THEN <<>>
    ELSE IF Head(ev).event = "NewSearchInDirectory"
         THEN <<Head(ev)>> \o SearchEvents(Tail(ev))
         ELSE SearchEvents(Tail(ev))

\* A step of new_search_in_directory.
SearchStep ==
    /\ last'.op = "new_search_in_directory"
    /\ tree_actions' = tree_actions + 1

\* C26: a new-search-in-directory event is emitted only by a step of
\* new_search_in_directory taken while the selection resolves to a directory,
\* and it carries that directory; a step of new_search_in_directory taken
\* with a file selected or without a selection that resolves emits nothing.
C26_SearchOnlyInDirectory ==
    [][/\ SearchEvents(events') # SearchEvents(events)
          => /\ SearchStep
             /\ HasSelectedEntry
             /\ selected_entry.is_dir
             /\ SearchEvents(events')
                   = Append(SearchEvents(events),
                            [event |-> "NewSearchInDirectory",
                             dir_entry |-> selected_entry])
       /\ (SearchStep /\ ~(HasSelectedEntry /\ selected_entry.is_dir))
          => events' = events]_vars

\* The handler has emitted the event for the selected directory after the
\* panel had emitted another event.
C26_Witness ==
    /\ last = Last("new_search_in_directory", "emitted")
    /\ HasSelectedEntry
    /\ selected_entry.is_dir
    /\ selected_entry.path # <<>>
    /\ Len(events) = 2
    /\ events[2] = [event |-> "NewSearchInDirectory", dir_entry |-> selected_entry]

\* ---------------------------------------------------------------------------
\* C27
\* ---------------------------------------------------------------------------

\* C27: a cancel leaves no session, whatever the session was, and a projection
\* rebuilt without a session; it leaves the operations in flight and the
\* calls made as they were, and, every operation in flight being completed
\* sooner or later, the callback of an operation that was in flight when the
\* session was cancelled runs afterwards.
C27_CancelKeepsOperation ==
    /\ [][EditStep("cancel")
             => /\ edit_state' = None
                /\ visible_entries' = VisibleAfterRebuild(expanded_dir_ids, None,
                                                          worktree_order, snapshot)
                /\ tasks' = tasks
                /\ calls' = calls]_vars
    /\ ((last.op = "cancel" /\ tasks # {}) ~> (last.op = "complete"))

\* A session has been cancelled while its operation is in flight.
C27_Witness ==
    /\ last.op = "cancel"
    /\ Idle
    /\ tasks # {}
    /\ calls # <<>>

\* ---------------------------------------------------------------------------
\* C28
\* ---------------------------------------------------------------------------

\* The directories of snap that enclose entry e, e itself included when it is
\* a directory.
EnclosingDirectories(snap, e) ==
    {d \in snap : d.is_dir /\ IsPrefix(d.path, e.path)}

\* The nearest of them.
NearestEnclosing(snap, e) ==
    CHOOSE d \in EnclosingDirectories(snap, e) :
       \A x \in EnclosingDirectories(snap, e) : Len(x.path) <= Len(d.path)

\* The selection, its root and the expansion list of the root are found.
SelectionResolvesForAdd ==
    /\ HasSelectedEntry
    /\ selection.worktree_id \in DOMAIN expanded_dir_ids

\* C28: new_file and new_directory with a selection that resolves to an entry
\* start a session on the nearest directory enclosing the selected entry (the
\* entry itself when it is a directory), for a new entry of the requested
\* kind with no pending name, and leave the id of that directory in the
\* expansion set of the root; when the selection, its root or the expansion
\* list of the root is not found, they leave the session and the expansion
\* table as they were.
C28_AddEntryAnchors ==
    [][AddStep
          => IF SelectionResolvesForAdd
             THEN LET anchor == NearestEnclosing(snapshot[selection.worktree_id],
                                                 selected_entry)
                  IN  /\ edit_state' # None
                      /\ edit_state'.worktree_id = selection.worktree_id
                      /\ edit_state'.entry_id = anchor.id
                      /\ edit_state'.is_new_entry
                      /\ edit_state'.is_dir = (last'.op = "new_directory")
                      /\ edit_state'.processing_filename = None
                      /\ anchor.id \in SetOf(expanded_dir_ids', selection.worktree_id)
             ELSE /\ edit_state' = edit_state
                  /\ expanded_dir_ids' = expanded_dir_ids]_vars

\* A session for a new file has been started in the directory "A", which was
\* collapsed when the panel was opened.
C28_Witness ==
    /\ last.op = "new_file"
    /\ Editing
    /\ edit_state.is_new_entry
    /\ ~edit_state.is_dir
    /\ edit_state.entry_id = 2
    /\ 2 \in SetOf(expanded_dir_ids, 1)
    /\ selection = Selection(1, NEW_ENTRY_ID)

\* ---------------------------------------------------------------------------
\* C29
\* ---------------------------------------------------------------------------

\* C29: expand_selected_entry with a directory X selected moves the selection
\* as select_next does and leaves the expansion table, the projection and the
\* requests made to the project unchanged when X is in the expansion set of
\* its root; when X is not, it adds X to that set, asks the project to expand
\* X, rebuilds the projection and leaves the selection on X. With a file
\* selected, or a selection that does not resolve, it changes none of them.
C29_ExpandSelected ==
    [][NavStep("expand_selected_entry")
          => IF /\ HasSelectedEntry
                /\ selected_entry.is_dir
                /\ selection.worktree_id \in DOMAIN expanded_dir_ids
             THEN LET w == selection.worktree_id
                      X == selection.entry_id
                  IN  IF X \in SetOf(expanded_dir_ids, w)
                      THEN /\ selection' = SelectNext(selection)
                           /\ UNCHANGED <<expanded_dir_ids, visible_entries,
                                          expand_requests>>
                      ELSE /\ SetOf(expanded_dir_ids', w)
                                 = SetOf(expanded_dir_ids, w) \cup {X}
                           /\ \A v \in (DOMAIN expanded_dir_ids) \ {w} :
                                 SetOf(expanded_dir_ids', v) = SetOf(expanded_dir_ids, v)
                           /\ expand_requests'
                                 = Append(expand_requests,
                                          [worktree_id |-> w, entry_id |-> X])
                           /\ visible_entries'
                                 = VisibleAfterRebuild(expanded_dir_ids', edit_state,
                                                       worktree_order, snapshot)
                           /\ selection' = selection
             ELSE UNCHANGED <<expanded_dir_ids, visible_entries, selection,
                              expand_requests>>]_vars

\* The selected directory was collapsed and has been expanded by the handler,
\* which has asked the project to expand it.
C29_Witness ==
    /\ last.op = "expand_selected_entry"
    /\ HasSelectedEntry
    /\ selected_entry.is_dir
    /\ selection.entry_id \in SetOf(expanded_dir_ids, selection.worktree_id)
    /\ Len(expand_requests) = 1
    /\ expand_requests[1] = [worktree_id |-> selection.worktree_id,
                             entry_id |-> selection.entry_id]
    /\ \E k \in 1..Len(visible_entries) :
          /\ visible_entries[k].worktree_id = selection.worktree_id
          /\ Len(visible_entries[k].entries) > 1

\* ---------------------------------------------------------------------------
\* C30
\* ---------------------------------------------------------------------------

\* The selected entry and the entries on its parent chain whose id is in the
\* expansion set of the root of the selection.
ExpandedOnChain ==
    {e \in snapshot[selection.worktree_id] :
        /\ IsPrefix(e.path, selected_entry.path)
        /\ e.id \in SetOf(expanded_dir_ids, selection.worktree_id)}

\* The first of them, walking upward from the selected entry.
FirstOnChain ==
    CHOOSE e \in ExpandedOnChain :
       \A x \in ExpandedOnChain : Len(x.path) <= Len(e.path)

\* The selection is a row of the projection.
SelectionIsRow(visible, sel) ==
    sel # None /\ IsRow(visible, sel.worktree_id, sel.entry_id)

\* C30: collapse_selected_entry takes out of the expansion set of the root of
\* the selection the first entry, from the selected entry upward along its
\* parent chain, whose id is in the set, selects that entry and rebuilds the
\* projection; when there is no such entry (or the selection does not
\* resolve) it leaves the expansion table, the selection and the projection
\* as they were. A selection that was a row of the projection before the
\* handler is a row of the projection after it.
C30_CollapseSelected ==
    [][NavStep("collapse_selected_entry")
          => /\ IF /\ HasSelectedEntry
                   /\ selection.worktree_id \in DOMAIN expanded_dir_ids
                   /\ ExpandedOnChain # {}
                THEN LET w == selection.worktree_id
                     IN  /\ SetOf(expanded_dir_ids', w)
                               = SetOf(expanded_dir_ids, w) \ {FirstOnChain.id}
                         /\ \A v \in (DOMAIN expanded_dir_ids) \ {w} :
                               SetOf(expanded_dir_ids', v) = SetOf(expanded_dir_ids, v)
                         /\ selection' = Selection(w, FirstOnChain.id)
                         /\ visible_entries'
                               = VisibleAfterRebuild(expanded_dir_ids', edit_state,
                                                     worktree_order, snapshot)
                ELSE UNCHANGED <<expanded_dir_ids, selection, visible_entries>>
             /\ SelectionIsRow(visible_entries, selection)
                   => SelectionIsRow(visible_entries', selection')]_vars

\* The first root has been collapsed by the handler and is selected, while
\* the root holds an entry that was created from the panel.
C30_Witness ==
    /\ last.op = "collapse_selected_entry"
    /\ selection = Selection(1, 1)
    /\ 1 \notin SetOf(expanded_dir_ids, 1)
    /\ SelectionIsRow(visible_entries, selection)
    /\ \E e \in snapshot[1] : e.id >= 7

\* ---------------------------------------------------------------------------
\* C31
\* ---------------------------------------------------------------------------

\* The root entry of the first root of the projection is available.
FirstRootAvailable ==
    /\ Len(visible_entries) > 0
    /\ HasWorktree(visible_entries[1].worktree_id)
    /\ \E e \in snapshot[visible_entries[1].worktree_id] : e.path = <<>>

StaleSelection ==
    selection # None /\ index_for_selection(visible_entries, selection) = None

\* C32: with a selection that is not a row of the projection, select_next
\* does what it does when the row at flat index 0 is selected (it selects the
\* row select_next selects from there, or changes nothing when select_next
\* changes nothing there), and select_prev, as at flat index 0, leaves the
\* selection as it is; neither of them panics.
C32_NavigatesFromStart ==
    [][(StaleSelection /\ FlatRows(visible_entries) # <<>>)
          => /\ NavStep("select_next")
                   => LET first == FlatRows(visible_entries)[1]
                      IN  selection' = IF SelectNext(first) = first THEN selection
                                       ELSE SelectNext(first)
             /\ NavStep("select_prev")
                   => /\ last'.result # "panic"
                      /\ selection' = selection]_vars

\* ---------------------------------------------------------------------------
\* C33
\* ---------------------------------------------------------------------------

\* The positions of the rows with the given id in a list of rows.
PositionsOf(rows, id) == {i \in 1..Len(rows) : rows[i].id = id}

\* The placeholder at position p of rows stands where the claim puts it among
\* the rows below the anchor at position a: after the anchor; a file
\* placeholder after every child directory of the anchor and every row below
\* such a directory, and before every child file; a directory placeholder
\* before every child directory.
PlacedAmongChildren(rows, a, p) ==
    /\ a < p
    /\ \A i \in 1..Len(rows) :
          (/\ rows[i].id # NEW_ENTRY_ID
           /\ Len(rows[i].path) > Len(rows[a].path)
           /\ IsPrefix(rows[a].path, rows[i].path))
             => LET child == Len(rows[i].path) = Len(rows[a].path) + 1
                IN  IF rows[p].is_dir
                    THEN (child /\ rows[i].is_dir) => p < i
                    ELSE IF child /\ ~rows[i].is_dir THEN p < i ELSE i < p

\* C33: while a session for a new entry exists and its anchor directory is a
\* row of the projection, the list of the root of the session holds the
\* synthetic entry once, placed among the rows below the anchor as described
\* above.
C33_PlaceholderPosition ==
    \A k \in 1..Len(visible_entries) :
       LET rows == visible_entries[k].entries
       IN  (/\ edit_state # None
            /\ edit_state.is_new_entry
            /\ edit_state.worktree_id = visible_entries[k].worktree_id
            /\ PositionsOf(rows, edit_state.entry_id) # {})
              => /\ Cardinality(PositionsOf(rows, NEW_ENTRY_ID)) = 1
                 /\ \A a \in PositionsOf(rows, edit_state.entry_id) :
                       \A p \in PositionsOf(rows, NEW_ENTRY_ID) :
                          PlacedAmongChildren(rows, a, p)

\* A session for a new file is anchored on the first root, which shows child
\* directories and a file that was created from the panel: the placeholder
\* stands between them.
C33_Witness ==
    /\ Editing
    /\ edit_state.is_new_entry
    /\ ~edit_state.is_dir
    /\ edit_state.worktree_id = 1
    /\ edit_state.entry_id = 1
    /\ LET rows == visible_entries[1].entries
       IN  /\ PositionsOf(rows, NEW_ENTRY_ID) # {}
           /\ \E i \in 1..Len(rows) :
                 /\ rows[i].id # NEW_ENTRY_ID
                 /\ Len(rows[i].path) = 1
                 /\ ~rows[i].is_dir
           /\ \E i \in 1..Len(rows) : Len(rows[i].path) = 1 /\ rows[i].is_dir

\* ---------------------------------------------------------------------------
\* C34
\* ---------------------------------------------------------------------------

\* The positions of the rows that carry the flag.
Flagged(rows, flag) == {i \in 1..Len(rows) : rows[i][flag]}

\* C34: the rows for_each_visible_entry yields over any range start..end with
\* start <= end, in any reachable state, hold at most one row that is being
\* edited, no row that is both being edited and being processed, at most one
\* selected row, and no two rows with the same entry id.
C34_RowFlags ==
    LET total == Len(FlatRows(visible_entries))
    IN  \A range_start \in 0..(total + 1) :
           \A range_end \in range_start..(total + 1) :
              LET rows == for_each_visible_entry(visible_entries,
                                                 range_start, range_end).rows
              IN  /\ Cardinality(Flagged(rows, "is_editing")) <= 1
                  /\ Flagged(rows, "is_editing") \cap Flagged(rows, "is_processing") = {}
                  /\ Cardinality(Flagged(rows, "is_selected")) <= 1
                  /\ \A i, j \in 1..Len(rows) : rows[i].id = rows[j].id => i = j

\* The rows of the whole projection hold the placeholder, whose name is being
\* processed, and a selected row that is another row.
C34_Witness ==
    LET rows == for_each_visible_entry(visible_entries, 0,
                                       Len(FlatRows(visible_entries))).rows
    IN  /\ Submitting
        /\ Flagged(rows, "is_processing") # {}
        /\ Flagged(rows, "is_selected") # {}
        /\ Flagged(rows, "is_selected") # Flagged(rows, "is_processing")
        /\ \E i \in 1..Len(rows) : rows[i].id = NEW_ENTRY_ID

\* ---------------------------------------------------------------------------
\* C35
\* ---------------------------------------------------------------------------

\* C35: when new_file or new_directory has started a session, the synthetic
\* entry is a row of the projection in the root of the session and the
\* selection refers to it, whatever the expansion table and the selection
\* were before.
C35_PlaceholderSelectedRow ==
    [][(AddStep /\ SelectionResolvesForAdd)
          => /\ selection' = Selection(selection.worktree_id, NEW_ENTRY_ID)
             /\ IsRow(visible_entries', selection.worktree_id, NEW_ENTRY_ID)]_vars

\* ---------------------------------------------------------------------------
\* C36
\* ---------------------------------------------------------------------------

\* C36: in every reachable state with a selection, the pair of indices
\* select_prev computes refers to an entry of the projection (the root index
\* is inside visible_entries, the entry index is not below zero and is inside
\* the list of that root), or select_prev returns without using the pair.
C36_SelectPrevInBounds ==
    selection # None
       => \/ ~SelectPrevIndex(selection).ok
          \/ SelectPrevInBounds(SelectPrevIndex(selection))

\* ---------------------------------------------------------------------------
\* C37
\* ---------------------------------------------------------------------------

\* The step is the callback of a completed operation.
CompletionStep == last'.op = "complete" /\ tasks' # tasks

\* C37: the callback of a completed operation leaves a session that is being
\* edited as it is.
C37_CompletionSparesEditing ==
    [][(CompletionStep /\ Editing) => edit_state' = edit_state]_vars

\* ---------------------------------------------------------------------------
\* C38
\* ---------------------------------------------------------------------------

\* The step is a confirm_edit that accepts the name and issues the operation.
AcceptedStep == EditStep("confirm") /\ last'.result = "submitted"

\* The step delivers the blur that an accepted confirm_edit has caused.
OwnBlurStep ==
    BlurredStep /\ last.op = "confirm" /\ last.result = "submitted"

\* C38: an accepted confirm_edit ends with the focus on the panel and the
\* pending name set, whether or not it has blurred the filename editor; the
\* blur it has caused is delivered to a session that is Submitting and leaves
\* that session as it is, with its operation still in flight.
C38_OwnBlurKeepsSubmission ==
    [][/\ AcceptedStep => /\ Submitting'
                          /\ focus' = "panel"
                          /\ blur_pending' = (focus = "editor")
       /\ OwnBlurStep => /\ Submitting
                         /\ edit_state' = edit_state
                         /\ tasks' = tasks
                         /\ tasks # {}]_vars

\* The blur caused by the accepted confirm_edit of a rename has been
\* delivered: the rename is in flight and its session is still Submitting.
C38_Witness ==
    /\ last.op = "blurred"
    /\ last.cause = "confirm"
    /\ last.result = "submitted"
    /\ Submitting
    /\ ~edit_state.is_new_entry
    /\ focus = "panel"
    /\ \E t \in tasks : t.call.fn = "rename_entry"

\* ---------------------------------------------------------------------------
\* C39
\* ---------------------------------------------------------------------------

\* The text consists of '/' characters only (the empty text included).
OnlySlashes(text) == \A i \in 1..Len(text) : text[i] = SLASH

\* The typed text is a blank name for the session: empty, or made of '/'
\* characters for a new entry.
BlankName ==
    IF edit_state.is_new_entry
    THEN OnlySlashes(filename_text)
    ELSE filename_text = STR_empty

\* The typed text of a rename is the current name of the renamed entry.
UnchangedName ==
    /\ ~edit_state.is_new_entry
    /\ ConfirmResolves
    /\ filename_text = FileName(ConfirmEntry.path)

\* The existing path a blank or unchanged name leads to: the anchor directory
\* for a new entry, the parent (the root for an entry without parent) for a
\* rename to the empty name, the entry itself for a rename to its own name.
ExistingDestination ==
    IF edit_state.is_new_entry THEN ConfirmEntry.path
    ELSE IF filename_text # STR_empty THEN ConfirmEntry.path
    ELSE IF HasParent(ConfirmEntry.path) THEN Parent(ConfirmEntry.path)
    ELSE <<>>

\* C39: a confirm_edit of a session whose typed text is a blank name, or the
\* current name of the renamed entry, issues no operation, spawns no task and
\* leaves the session as it is; when its lookups succeed, the destination it
\* computes is the path of an entry of the worktree (the anchor directory, the
\* parent or the root, or the entry itself) and the submission is rejected.
C39_BlankOrUnchangedRejected ==
    [][(EditStep("confirm") /\ edit_state # None /\ (BlankName \/ UnchangedName))
          => /\ calls' = calls
             /\ tasks' = tasks
             /\ edit_state' = edit_state
             /\ ConfirmResolves
                   => /\ last'.result = "rejected"
                      /\ NewPath(edit_state, ConfirmEntry, filename_text)
                            = ExistingDestination
                      /\ HasEntryForPath(snapshot[edit_state.worktree_id],
                                         ExistingDestination)]_vars

\* A new entry has been confirmed with the text "/" and rejected: nothing has
\* been issued.
C39_Witness ==
    /\ last.op = "confirm"
    /\ last.result = "rejected"
    /\ edit_state # None
    /\ edit_state.is_new_entry
    /\ filename_text = <<SLASH>>
    /\ calls = <<>>

\* ---------------------------------------------------------------------------
\* C40
\* ---------------------------------------------------------------------------

\* The step answers the prompt p with the button "Delete".
AnsweredDelete(p) ==
    Closes(p) /\ last'.op = "prompt_answered" /\ last'.cause = "Delete"

\* C40: the prompt that delete opens carries the entry id selected at that
\* moment, and when a prompt is answered with "Delete" the delete_entry call,
\* issued whenever the project still knows that entry, names the entry id of
\* the prompt, whatever the selection is at the time of the answer.
C40_DeletesEntrySelectedAtInvoke ==
    [][/\ (last'.op = "delete" /\ last'.result = "prompt")
             => \E p \in prompts' \ prompts : p.entry_id = selection.entry_id
       /\ \A p \in prompts :
             AnsweredDelete(p)
                => /\ HasWorktreeForEntry(p.entry_id) => IssuesDelete
                   /\ IssuesDelete
                         => calls'[Len(calls')].entry_id = p.entry_id]_vars

\* A prompt has been answered with "Delete" while another entry of the
\* project was selected: the call names the entry of the prompt.
C40_Witness ==
    /\ last.op = "prompt_answered"
    /\ last.result = "delete_entry"
    /\ selection # None
    /\ HasWorktreeForEntry(selection.entry_id)
    /\ calls[Len(calls)].fn = "delete_entry"
    /\ calls[Len(calls)].entry_id # selection.entry_id

====
